---- MODULE Spec2Model ----
(***************************************************************************)
(* A model of the codezest-auth identity and session service:              *)
(*   AuthService   (src/src/application/services/auth.service.ts)          *)
(*   OAuthService  (src/unnamed/part_011)                                  *)
(*   OAuthController (src/unnamed/part_008)                                *)
(*   the Prisma repositories (src/unnamed/part_022, part_023, ...)         *)
(*                                                                         *)
(* Time is counted in minutes (every duration in the code is a whole       *)
(* number of minutes).  uuidv4() is a fresh number drawn from nextId.      *)
(* A JWT is the record of its claims, its signing key (typ) and its iat.   *)
(* The cache client is the external package @codezest-academy/codezest-    *)
(* cache; each call site is modelled with the value type it declares:      *)
(* auth.service.ts reads cache.get<{...}> as the parsed record,            *)
(* oauth.service.ts reads cache.get<string> and parses it itself.          *)
(***************************************************************************)
EXTENDS Integers, Sequences, FiniteSets, TLC

VARIABLES
  now,                \* Date.now(), in minutes
  nextId,             \* source of fresh uuids
  users,              \* table User
  sessions,           \* table Session
  emailVerifications, \* table EmailVerification
  passwordResets,     \* table PasswordReset
  oauthAccounts,      \* table OAuthAccount
  lockouts,           \* cache keys login_attempts:{email}
  families,           \* cache keys token_family:{familyId}
  sessionMeta,        \* cache keys session_meta:{sessionId}
  oauthStates,        \* cache keys oauth:state:{nonce}
  userCache,          \* cache keys user:{id}
  csrfTokens,         \* cache keys csrf:{token}
  last,               \* the last request and its response
  issued,             \* history: every refresh token ever returned
  consumed,           \* history: refresh tokens whose refresh succeeded
  streak,             \* history: failed logins per email since its record was absent (counted up to 6)
  pwRevoked,          \* history: refresh tokens issued before a password change
  burned,             \* history: families for which reuse was detected
  spent,              \* history: oauth state nonces that passed validation
  revocation,         \* history: refresh tokens of the rows dropped / kept by revokeOtherSessions
  loggedOut,          \* history: refresh tokens that were presented to logout
  inflight            \* per caller: the call in progress, its position and its locals

vars == <<now, nextId, users, sessions, emailVerifications, passwordResets,
          oauthAccounts, lockouts, families, sessionMeta, oauthStates, userCache,
          csrfTokens, last,
          issued, consumed, streak, pwRevoked, burned, spent, revocation,
          loggedOut, inflight>>

dbVars == <<users, sessions, emailVerifications, passwordResets, oauthAccounts>>
cacheVars == <<lockouts, families, sessionMeta, oauthStates, userCache, csrfTokens>>
histVars == <<issued, consumed, streak, pwRevoked, burned, spent, revocation, loggedOut>>

\* ---------------------------------------------------------------- inputs

Null == [null |-> TRUE]   \* null / undefined where an object is expected
NoId == 0                 \* an absent uuid (familyId, sessionId, state)
NoTime == -1              \* an absent timestamp
Emails == {"a@x", "b@x"}
Callers == {"c1", "c2"}
Passwords == {"pw1", "pw2"}
Providers == {"google", "github"}

\* ---------------------------------------------------------------- bounds

MaxIds == 8
MaxNow == 15120
MaxIdsLockout == 6
MaxNowLockout == 90
MaxIdsPassword == 8
MaxNowPassword == 60
MaxIdsOAuth == 7
MaxNowOAuth == 10
MaxStates == 2
MaxIdsReset == 6
MaxNowReset == 90
MaxIdsUser == 8
MaxNowUser == 60
MaxIdsCsrf == 7
MaxNowCsrf == 1440
MaxIdsSweep == 7
MaxNowSweep == 20160
MaxIdsUnlink == 8
MaxIdsSessions == 10
MaxIdsRevoke == 8
MaxNowRevoke == 15
MaxClaim == 2
MaxIdsRace == 6
MaxIdsRaceLogin == 6
MaxIdsRaceOAuth == 8
MaxIdsRaceRegister == 8
MaxIdsRaceReset == 8
MaxIdsRacePassword == 7
MaxIdsAuthn == 8
MaxNowAuthn == 20
MaxNowToken == 10095
MaxNowSessions == 15

\* ---------------------------------------------------------------- program constants (minutes)

MAX_ATTEMPTS == 5
LOCKOUT_DURATION == 30
ATTEMPTS_TTL == 60
FAMILY_TTL == 10080
SESSION_LIFETIME == 10080
SESSION_META_TTL == 10080
OAUTH_SESSION_LIFETIME == 10080
OAUTH_STATE_TTL == 10
RESET_LIFETIME == 60
VERIFICATION_LIFETIME == 1440
REFRESH_EXPIRES_IN == 10080
ACCESS_EXPIRES_IN == 15
USER_CACHE_TTL == 60
CSRF_TTL == 1440

\* ---------------------------------------------------------------- cache client

EmptyCache == <<>>

CacheSet(c, k, v, ttl) ==
  [x \in (DOMAIN c) \cup {k} |-> IF x = k THEN [value |-> v, exp |-> now + ttl] ELSE c[x]]

\* a del that leaves the key in place
CacheDel_Noop(c, k) == c

CacheDel(c, k) == [x \in (DOMAIN c) \ {k} |-> c[x]]

\* a get that misses every key
CacheGet_Miss(c, k) == Null

CacheGet(c, k) == IF k \in DOMAIN c THEN c[k].value ELSE Null

\* a cache whose keys never run out
CacheExpire_Never(c, t) == c

\* keys whose TTL has run out at time t are gone
CacheExpire(c, t) == [x \in {k \in DOMAIN c : c[k].exp > t} |-> c[x]]

JSONstringify(v) == [json |-> v]
JSONparse(s) == s.json

\* cache.get<T>(key) read as the record that was stringified into it
CacheGetRecord(c, k) == IF CacheGet(c, k) = Null THEN Null ELSE JSONparse(CacheGet(c, k))

\* ---------------------------------------------------------------- bcrypt, jwt

BcryptHash(p) == [bcrypt |-> p]
BcryptCompare(p, h) == h.bcrypt = p

GenerateAccessToken(payload, t) ==
  [typ |-> "access", userId |-> payload.userId, familyId |-> payload.familyId,
   sessionId |-> payload.sessionId, iat |-> t]

GenerateRefreshToken(payload, t) ==
  [typ |-> "refresh", userId |-> payload.userId, familyId |-> payload.familyId,
   sessionId |-> payload.sessionId, iat |-> t]

\* jwt.verify with the refresh secret: the signature and exp are checked
VerifyRefreshToken(tok, t) == tok.typ = "refresh" /\ t < tok.iat + REFRESH_EXPIRES_IN

\* a verification that accepts a signature made with either secret
VerifyAccessToken_AnyKey(tok, t) == t < tok.iat + ACCESS_EXPIRES_IN

\* jwt.verify with the access secret: the signature and exp are checked
VerifyAccessToken(tok, t) == tok.typ = "access" /\ t < tok.iat + ACCESS_EXPIRES_IN

\* the lifetime jwt.sign was given for a token of this kind
ExpiresIn(tok) == IF tok.typ = "access" THEN ACCESS_EXPIRES_IN ELSE REFRESH_EXPIRES_IN

\* the payload jwt.verify hands back: the signed claims and the registered
\* claims that jwt.sign added (iat, exp from expiresIn, iss, aud)
Decoded(tok) ==
  [userId |-> tok.userId, familyId |-> tok.familyId, sessionId |-> tok.sessionId,
   iat |-> tok.iat, exp |-> tok.iat + ExpiresIn(tok),
   iss |-> "codezest-auth", aud |-> "codezest-api"]

\* TokenUtil.verifyAccessToken: the payload, or Null where jwt.verify throws
VerifyAccessTokenPayload(tok, t) == IF VerifyAccessToken(tok, t) THEN Decoded(tok) ELSE Null

\* TokenUtil.verifyRefreshToken: the payload, or Null where jwt.verify throws
VerifyRefreshTokenPayload(tok, t) == IF VerifyRefreshToken(tok, t) THEN Decoded(tok) ELSE Null

\* AuthService.generateTokens(user, sessionId, existingFamilyId?)
GenerateTokens(userId, sessionId, existingFamilyId, freshFamilyId, t) ==
  LET familyId == IF existingFamilyId # NoId THEN existingFamilyId ELSE freshFamilyId
      payload == [userId |-> userId, familyId |-> familyId, sessionId |-> sessionId]
  IN [accessToken |-> GenerateAccessToken(payload, t),
      refreshToken |-> GenerateRefreshToken(payload, t),
      familyId |-> familyId]

\* ---------------------------------------------------------------- repositories

\* a findByEmail that never finds a row
FindUserByEmail_Miss(e) == Null

FindUserByEmail(e) == IF \E u \in users : u.email = e
                      THEN CHOOSE u \in users : u.email = e ELSE Null

FindUserById(id) == IF \E u \in users : u.id = id
                    THEN CHOOSE u \in users : u.id = id ELSE Null

FindSessionByToken(tok) == IF \E s \in sessions : s.token = tok
                           THEN CHOOSE s \in sessions : s.token = tok ELSE Null

\* a delete that removes nothing
SessionDelete_Keep(ss, id) == ss

SessionDelete(ss, id) == {s \in ss : s.id # id}

\* a findByUserId that returns every user's rows
SessionFindByUserId_All(ss, userId) == ss

SessionFindByUserId(ss, userId) == {s \in ss : s.userId = userId}

\* a deleteByUserId that removes nothing
SessionDeleteByUserId_None(ss, userId) == ss

SessionDeleteByUserId(ss, userId) == {s \in ss : s.userId # userId}

\* deleteMany where expiresAt lt new Date()
SessionDeleteExpired(ss, t) == {s \in ss : ~(s.expiresAt < t)}

UserUpdatePassword(us, id, h) ==
  {IF u.id = id THEN [u EXCEPT !.password = h] ELSE u : u \in us}

\* an update that does not reach the row
UserUpdateEmailVerified_Noop(us, id) == us

UserUpdateEmailVerified(us, id) ==
  {IF u.id = id THEN [u EXCEPT !.emailVerified = TRUE] ELSE u : u \in us}

\* ---------------------------------------------------------------- responses

\* the request just served and what it answered
NoResp ==
  [op |-> "init", method |-> "none", csrf |-> NoId,
   email |-> "none", password |-> "none", token |-> Null, userId |-> NoId,
   nonce |-> NoId, provider |-> "none", user |-> Null,
   kind |-> "ok", msg |-> "none", minutes |-> 0, events |-> {}, tokens |-> Null,
   readUsers |-> FALSE, pre |-> FALSE, sessionId |-> NoId, claims |-> Null]

\* a caller with no call in progress
Idle == [pc |-> "idle", token |-> Null, session |-> Null, tokens |-> Null,
         email |-> "none", lockoutState |-> Null, result |-> "none", pre |-> FALSE,
         provider |-> "none", nonce |-> NoId, password |-> "none", user |-> Null,
         reset |-> Null]

\* ---------------------------------------------------------------- initial state

Init ==
  /\ now = 0
  /\ nextId = 1
  /\ users = {}
  /\ sessions = {}
  /\ emailVerifications = {}
  /\ passwordResets = {}
  /\ oauthAccounts = {}
  /\ lockouts = EmptyCache
  /\ families = EmptyCache
  /\ sessionMeta = EmptyCache
  /\ oauthStates = EmptyCache
  /\ userCache = EmptyCache
  /\ csrfTokens = EmptyCache
  /\ last = NoResp
  /\ issued = {}
  /\ consumed = {}
  /\ streak = [e \in Emails |-> 0]
  /\ pwRevoked = {}
  /\ burned = {}
  /\ spent = {}
  /\ revocation = [dropped |-> {}, kept |-> {}]
  /\ loggedOut = {}
  /\ inflight = [c \in Callers |-> Idle]

\* ---------------------------------------------------------------- AuthService.createSession

\* the Session row written by createSession
NewSession(userId, refreshToken, sessionId) ==
  [id |-> sessionId, userId |-> userId, token |-> refreshToken,
   expiresAt |-> now + SESSION_LIFETIME]

\* the session_meta entry written by createSession (ip / userAgent given)
NewSessionMeta(c, sessionId, loginMethod) ==
  CacheSet(c, sessionId, JSONstringify([loginMethod |-> loginMethod, lastLoginAt |-> now]),
           SESSION_META_TTL)

\* the token_family head written by register, login and refresh
FamilyHead(tokens, userId) ==
  JSONstringify([currentToken |-> tokens.refreshToken, userId |-> userId])

\* ---------------------------------------------------------------- AuthService.register

Register(e, p) ==
  LET existingUser == FindUserByEmail(e)
      user == [id |-> nextId, email |-> e, password |-> BcryptHash(p), emailVerified |-> FALSE]
      verification == [id |-> nextId + 1, userId |-> user.id, token |-> nextId + 1,
                       verifiedAt |-> NoTime, createdAt |-> now]
      sessionId == nextId + 2
      tokens == GenerateTokens(user.id, sessionId, NoId, nextId + 3, now)
  IN IF existingUser # Null
     THEN /\ last' = [NoResp EXCEPT !.op = "register", !.email = e, !.kind = "Conflict",
                                     !.msg = "Email already registered", !.readUsers = TRUE]
          /\ UNCHANGED <<now, nextId, dbVars, cacheVars, histVars, inflight>>
     ELSE /\ users' = users \cup {user}
          /\ emailVerifications' = emailVerifications \cup {verification}
          /\ families' = CacheSet(families, tokens.familyId, FamilyHead(tokens, user.id), FAMILY_TTL)
          /\ sessions' = sessions \cup {NewSession(user.id, tokens.refreshToken, sessionId)}
          /\ sessionMeta' = NewSessionMeta(sessionMeta, sessionId, "password")
          /\ nextId' = nextId + 4
          /\ issued' = issued \cup {tokens.refreshToken}
          /\ last' = [NoResp EXCEPT !.op = "register", !.email = e, !.tokens = tokens,
                                     !.events = {"REGISTER_SUCCESS"}, !.readUsers = TRUE]
          /\ UNCHANGED <<now, passwordResets, oauthAccounts, lockouts, oauthStates, userCache, csrfTokens,
                         consumed, streak, pwRevoked, burned, spent, revocation, loggedOut, inflight>>

\* ---------------------------------------------------------------- AuthService.login

\* a lockout test with the comparison turned round
IsLocked_Flipped(lockoutState, t) ==
  /\ lockoutState # Null
  /\ lockoutState.lockedUntil # NoTime
  /\ lockoutState.lockedUntil < t

\* login's lockout test: lockoutState && lockoutState.lockedUntil && lockedUntil > Date.now()
IsLocked(lockoutState, t) ==
  /\ lockoutState # Null
  /\ lockoutState.lockedUntil # NoTime
  /\ lockoutState.lockedUntil > t

\* handleFailedLogin locking one attempt late
HandleFailedLogin_OffByOne(lockoutState, t) ==
  LET attempts == (IF lockoutState = Null THEN 0 ELSE lockoutState.attempts) + 1
  IN IF attempts > MAX_ATTEMPTS
     THEN [rec |-> [attempts |-> attempts, lockedUntil |-> t + LOCKOUT_DURATION],
           ttl |-> LOCKOUT_DURATION, event |-> "ACCOUNT_LOCKED", thrown |-> TRUE]
     ELSE [rec |-> [attempts |-> attempts, lockedUntil |-> NoTime],
           ttl |-> ATTEMPTS_TTL, event |-> "LOGIN_FAILED", thrown |-> FALSE]

\* AuthService.handleFailedLogin: the record it writes, its TTL, its event, and
\* whether it throws the locked error itself
HandleFailedLogin(lockoutState, t) ==
  LET attempts == (IF lockoutState = Null THEN 0 ELSE lockoutState.attempts) + 1
  IN IF attempts >= MAX_ATTEMPTS
     THEN [rec |-> [attempts |-> attempts, lockedUntil |-> t + LOCKOUT_DURATION],
           ttl |-> LOCKOUT_DURATION, event |-> "ACCOUNT_LOCKED", thrown |-> TRUE]
     ELSE [rec |-> [attempts |-> attempts, lockedUntil |-> NoTime],
           ttl |-> ATTEMPTS_TTL, event |-> "LOGIN_FAILED", thrown |-> FALSE]

\* a failing branch of login: handleFailedLogin, then the uniform error
FailedLogin(lockoutState, t) ==
  LET h == HandleFailedLogin(lockoutState, t)
  IN [success |-> FALSE, kind |-> "Unauthorized",
      msg |-> IF h.thrown THEN "Account is locked" ELSE "Invalid email or password",
      minutes |-> IF h.thrown THEN 30 ELSE 0,
      write |-> h.rec, ttl |-> h.ttl, events |-> {h.event}, readUsers |-> TRUE]

\* a login that does not count the attempt when no user has the email
LoginOutcome_UnknownNotCounted(lockoutState, user, p, t) ==
  IF IsLocked(lockoutState, t)
  THEN [success |-> FALSE, kind |-> "Unauthorized", msg |-> "Account is locked",
        minutes |-> lockoutState.lockedUntil - t,
        write |-> Null, ttl |-> 0, events |-> {}, readUsers |-> FALSE]
  ELSE IF user = Null
  THEN [success |-> FALSE, kind |-> "Unauthorized", msg |-> "Invalid email or password",
        minutes |-> 0, write |-> Null, ttl |-> 0, events |-> {}, readUsers |-> TRUE]
  ELSE IF user.password = Null THEN FailedLogin(lockoutState, t)
  ELSE IF ~BcryptCompare(p, user.password) THEN FailedLogin(lockoutState, t)
  ELSE [success |-> TRUE, kind |-> "ok", msg |-> "none", minutes |-> 0,
        write |-> Null, ttl |-> 0, events |-> {"LOGIN_SUCCESS"}, readUsers |-> TRUE]

\* what login answers and writes to login_attempts, from the lockout record, the
\* User row found for the email (or Null) and the password presented
LoginOutcome(lockoutState, user, p, t) ==
  IF IsLocked(lockoutState, t)
  THEN [success |-> FALSE, kind |-> "Unauthorized", msg |-> "Account is locked",
        minutes |-> lockoutState.lockedUntil - t,
        write |-> Null, ttl |-> 0, events |-> {}, readUsers |-> FALSE]
  ELSE IF user = Null THEN FailedLogin(lockoutState, t)
  ELSE IF user.password = Null THEN FailedLogin(lockoutState, t)
  ELSE IF ~BcryptCompare(p, user.password) THEN FailedLogin(lockoutState, t)
  ELSE [success |-> TRUE, kind |-> "ok", msg |-> "none", minutes |-> 0,
        write |-> Null, ttl |-> 0, events |-> {"LOGIN_SUCCESS"}, readUsers |-> TRUE]

Login(e, p) ==
  LET lockoutState == CacheGetRecord(lockouts, e)
      user == FindUserByEmail(e)
      out == LoginOutcome(lockoutState, user, p, now)
      sessionId == nextId
      tokens == GenerateTokens(user.id, sessionId, NoId, nextId + 1, now)
  IN IF ~out.success
     THEN /\ lockouts' = IF out.write # Null
                         THEN CacheSet(lockouts, e, JSONstringify(out.write), out.ttl)
                         ELSE lockouts
          /\ streak' = [streak EXCEPT ![e] = IF @ <= MAX_ATTEMPTS THEN @ + 1 ELSE @]
          /\ last' = [NoResp EXCEPT !.op = "login", !.email = e, !.password = p,
                                     !.kind = out.kind,
                                     !.msg = out.msg, !.minutes = out.minutes,
                                     !.events = out.events, !.readUsers = out.readUsers,
                                     !.pre = ~out.readUsers]
          /\ UNCHANGED <<now, nextId, dbVars, families, sessionMeta, oauthStates, userCache, csrfTokens,
                         issued, consumed, pwRevoked, burned, spent, revocation, loggedOut, inflight>>
     ELSE /\ lockouts' = IF lockoutState # Null THEN CacheDel(lockouts, e) ELSE lockouts
          /\ streak' = [streak EXCEPT ![e] = 0]
          /\ families' = CacheSet(families, tokens.familyId, FamilyHead(tokens, user.id), FAMILY_TTL)
          /\ sessions' = sessions \cup {NewSession(user.id, tokens.refreshToken, sessionId)}
          /\ sessionMeta' = NewSessionMeta(sessionMeta, sessionId, "password")
          /\ nextId' = nextId + 2
          /\ issued' = issued \cup {tokens.refreshToken}
          /\ last' = [NoResp EXCEPT !.op = "login", !.email = e, !.password = p,
                                     !.tokens = tokens,
                                     !.events = out.events, !.readUsers = TRUE]
          /\ UNCHANGED <<now, users, emailVerifications, passwordResets, oauthAccounts,
                         oauthStates, userCache, csrfTokens, consumed, pwRevoked, burned, spent, revocation, loggedOut, inflight>>

\* ---------------------------------------------------------------- AuthService.refreshToken

\* a reuse test that also fires when the family has no head
IsReuse_HeadRequired(familyState, refreshToken) ==
  familyState = Null \/ familyState.currentToken # refreshToken

\* if (familyState) { if (currentToken !== refreshToken) ... }
IsReuse(familyState, refreshToken) ==
  familyState # Null /\ familyState.currentToken # refreshToken

\* refreshToken without the family-head comparison
RefreshOutcome_NoReuseCheck(refreshToken, t) ==
  LET session == FindSessionByToken(refreshToken)
  IN IF ~VerifyRefreshToken(refreshToken, t) THEN "invalid"
     ELSE IF session = Null THEN "nosession"
     ELSE IF session.expiresAt < t THEN "expired"
     ELSE IF FindUserById(refreshToken.userId) = Null THEN "nouser"
     ELSE "rotate"

\* the steps of refreshToken up to the rotation: which way the call ends
RefreshOutcome(refreshToken, t) ==
  LET familyState == CacheGetRecord(families, refreshToken.familyId)
      session == FindSessionByToken(refreshToken)
  IN IF ~VerifyRefreshToken(refreshToken, t) THEN "invalid"
     ELSE IF /\ refreshToken.familyId # NoId
             /\ IsReuse(familyState, refreshToken) THEN "reuse"
     ELSE IF session = Null THEN "nosession"
     ELSE IF session.expiresAt < t THEN "expired"
     ELSE IF FindUserById(refreshToken.userId) = Null THEN "nouser"
     ELSE "rotate"

Refresh(refreshToken) ==
  LET outcome == RefreshOutcome(refreshToken, now)
      session == FindSessionByToken(refreshToken)
      sessionId == nextId
      tokens == GenerateTokens(refreshToken.userId, sessionId, refreshToken.familyId,
                               nextId + 1, now)
      req == [NoResp EXCEPT !.op = "refresh", !.token = refreshToken,
                            !.pre = (CacheGet(families, refreshToken.familyId) # Null)]
  IN IF outcome = "invalid"
     THEN /\ last' = [req EXCEPT !.kind = "Unauthorized", !.msg = "Invalid refresh token",
                                 !.events = {"TOKEN_REFRESH_FAILED"}]
          /\ UNCHANGED <<now, nextId, dbVars, cacheVars, histVars, inflight>>
     ELSE IF outcome = "reuse"
     THEN /\ families' = CacheDel(families, refreshToken.familyId)
          /\ last' = [req EXCEPT !.kind = "Unauthorized",
                                 !.msg = "Invalid refresh token (reuse detected)",
                                 !.events = {"TOKEN_REUSE_DETECTED"}]
          /\ burned' = burned \cup {refreshToken.familyId}
          /\ UNCHANGED <<now, nextId, dbVars, lockouts, sessionMeta, oauthStates, userCache, csrfTokens,
                         issued, consumed, streak, pwRevoked, spent, revocation, loggedOut, inflight>>
     ELSE IF outcome = "nosession"
     THEN /\ last' = [req EXCEPT !.kind = "Unauthorized", !.msg = "Invalid refresh token"]
          /\ UNCHANGED <<now, nextId, dbVars, cacheVars, histVars, inflight>>
     ELSE IF outcome = "expired"
     THEN /\ sessions' = SessionDelete(sessions, session.id)
          /\ last' = [req EXCEPT !.kind = "Unauthorized", !.msg = "Refresh token expired"]
          /\ UNCHANGED <<now, nextId, users, emailVerifications, passwordResets,
                         oauthAccounts, cacheVars, histVars, inflight>>
     ELSE IF outcome = "nouser"
     THEN /\ last' = [req EXCEPT !.kind = "Unauthorized", !.msg = "User not found",
                                 !.readUsers = TRUE]
          /\ UNCHANGED <<now, nextId, dbVars, cacheVars, histVars, inflight>>
     ELSE /\ families' = IF refreshToken.familyId # NoId
                         THEN CacheSet(families, refreshToken.familyId,
                                       FamilyHead(tokens, refreshToken.userId), FAMILY_TTL)
                         ELSE families
          /\ sessions' = SessionDelete(sessions, session.id)
                           \cup {NewSession(refreshToken.userId, tokens.refreshToken, sessionId)}
          /\ sessionMeta' = NewSessionMeta(sessionMeta, sessionId, "password")
          /\ nextId' = nextId + (IF refreshToken.familyId # NoId THEN 1 ELSE 2)
          /\ issued' = issued \cup {tokens.refreshToken}
          /\ consumed' = consumed \cup {refreshToken}
          /\ last' = [req EXCEPT !.tokens = tokens, !.events = {"TOKEN_REFRESH_SUCCESS"},
                                 !.readUsers = TRUE]
          /\ UNCHANGED <<now, users, emailVerifications, passwordResets, oauthAccounts,
                         lockouts, oauthStates, userCache, csrfTokens, streak, pwRevoked, burned, spent, revocation, loggedOut, inflight>>

\* ---------------------------------------------------------------- AuthService.logout

\* the body of logout(refreshToken); req is the request served
LogoutAs(req, refreshToken) ==
  LET session == FindSessionByToken(refreshToken)
  IN /\ sessions' = IF session # Null THEN SessionDelete(sessions, session.id) ELSE sessions
     /\ last' = req
     /\ loggedOut' = loggedOut \cup {refreshToken}
     /\ UNCHANGED <<now, nextId, users, emailVerifications, passwordResets, oauthAccounts,
                    cacheVars, issued, consumed, streak, pwRevoked, burned, spent,
                    revocation, inflight>>

Logout(refreshToken) ==
  LogoutAs([NoResp EXCEPT !.op = "logout", !.token = refreshToken], refreshToken)

\* ---------------------------------------------------------------- AuthService.verifyEmail

VerifyEmail(token) ==
  LET verification == IF \E v \in emailVerifications : v.token = token
                      THEN CHOOSE v \in emailVerifications : v.token = token ELSE Null
      req == [NoResp EXCEPT !.op = "verifyEmail", !.nonce = token]
  IN IF verification = Null
     THEN /\ last' = [req EXCEPT !.kind = "BadRequest", !.msg = "Invalid verification token"]
          /\ UNCHANGED <<now, nextId, dbVars, cacheVars, histVars, inflight>>
     ELSE IF verification.verifiedAt # NoTime
     THEN /\ last' = [req EXCEPT !.kind = "BadRequest", !.msg = "Email already verified"]
          /\ UNCHANGED <<now, nextId, dbVars, cacheVars, histVars, inflight>>
     ELSE IF verification.createdAt + VERIFICATION_LIFETIME < now
     THEN /\ last' = [req EXCEPT !.kind = "BadRequest", !.msg = "Verification token expired"]
          /\ UNCHANGED <<now, nextId, dbVars, cacheVars, histVars, inflight>>
     ELSE /\ emailVerifications' = {IF v.id = verification.id
                                    THEN [v EXCEPT !.verifiedAt = now] ELSE v
                                    : v \in emailVerifications}
          /\ users' = UserUpdateEmailVerified(users, verification.userId)
          /\ last' = [req EXCEPT !.userId = verification.userId, !.events = {"EMAIL_VERIFIED"}]
          /\ UNCHANGED <<now, nextId, sessions, passwordResets, oauthAccounts,
                         cacheVars, histVars, inflight>>

\* ---------------------------------------------------------------- AuthService.requestPasswordReset

\* mailOk: whether the mailer delivers (sendPasswordResetEmail rethrows its failure)
RequestPasswordReset(e, mailOk) ==
  LET user == FindUserByEmail(e)
      req == [NoResp EXCEPT !.op = "requestPasswordReset", !.email = e, !.readUsers = TRUE]
  IN IF user = Null
     THEN /\ last' = req
          /\ UNCHANGED <<now, nextId, dbVars, cacheVars, histVars, inflight>>
     ELSE /\ passwordResets' = passwordResets \cup
                                 {[id |-> nextId, userId |-> user.id, token |-> nextId,
                                   expiresAt |-> now + RESET_LIFETIME, usedAt |-> NoTime]}
          /\ nextId' = nextId + 1
          /\ last' = IF mailOk
                     THEN [req EXCEPT !.userId = user.id, !.nonce = nextId,
                                      !.events = {"PASSWORD_RESET_REQUESTED"}]
                     ELSE [req EXCEPT !.kind = "InternalError",
                                      !.msg = "Failed to send password reset email"]
          /\ UNCHANGED <<now, users, sessions, emailVerifications, oauthAccounts,
                         cacheVars, histVars, inflight>>

\* ---------------------------------------------------------------- AuthService.resetPassword

FindResetByToken(token) == IF \E r \in passwordResets : r.token = token
                           THEN CHOOSE r \in passwordResets : r.token = token ELSE Null

ResetMarkAsUsed(rs, id) == {IF r.id = id THEN [r EXCEPT !.usedAt = now] ELSE r : r \in rs}

\* an expiry test that also rejects at the instant of expiry
ResetExpired_Inclusive(reset, t) == reset.expiresAt <= t

\* resetPassword's expiry test: reset.expiresAt < new Date()
ResetExpired(reset, t) == reset.expiresAt < t

ResetPassword(token, newPassword) ==
  LET reset == FindResetByToken(token)
      req == [NoResp EXCEPT !.op = "resetPassword", !.nonce = token, !.password = newPassword]
  IN IF reset = Null
     THEN /\ last' = [req EXCEPT !.kind = "BadRequest", !.msg = "Invalid reset token"]
          /\ UNCHANGED <<now, nextId, dbVars, cacheVars, histVars, inflight>>
     ELSE IF reset.usedAt # NoTime
     THEN /\ last' = [req EXCEPT !.kind = "BadRequest", !.msg = "Reset token already used"]
          /\ UNCHANGED <<now, nextId, dbVars, cacheVars, histVars, inflight>>
     ELSE IF ResetExpired(reset, now)
     THEN /\ last' = [req EXCEPT !.kind = "BadRequest", !.msg = "Reset token expired"]
          /\ UNCHANGED <<now, nextId, dbVars, cacheVars, histVars, inflight>>
     ELSE /\ users' = UserUpdatePassword(users, reset.userId, BcryptHash(newPassword))
          /\ passwordResets' = ResetMarkAsUsed(passwordResets, reset.id)
          /\ sessions' = SessionDeleteByUserId(sessions, reset.userId)
          /\ pwRevoked' = pwRevoked \cup {t \in issued : t.userId = reset.userId}
          /\ last' = [req EXCEPT !.userId = reset.userId,
                                 !.events = {"PASSWORD_RESET_SUCCESS"}]
          /\ UNCHANGED <<now, nextId, emailVerifications, oauthAccounts, cacheVars,
                         issued, consumed, streak, burned, spent, revocation, loggedOut, inflight>>

\* ---------------------------------------------------------------- AuthService.changePassword

ChangePassword(userId, currentPassword, newPassword) ==
  LET user == FindUserById(userId)
      req == [NoResp EXCEPT !.op = "changePassword", !.userId = userId,
                            !.password = newPassword, !.readUsers = TRUE]
  IN IF user = Null
     THEN /\ last' = [req EXCEPT !.kind = "NotFound", !.msg = "User not found"]
          /\ UNCHANGED <<now, nextId, dbVars, cacheVars, histVars, inflight>>
     ELSE IF user.password = Null
     THEN /\ last' = [req EXCEPT !.kind = "BadRequest",
                                 !.msg = "User does not have a password set"]
          /\ UNCHANGED <<now, nextId, dbVars, cacheVars, histVars, inflight>>
     ELSE IF ~BcryptCompare(currentPassword, user.password)
     THEN /\ last' = [req EXCEPT !.kind = "Unauthorized",
                                 !.msg = "Current password is incorrect"]
          /\ UNCHANGED <<now, nextId, dbVars, cacheVars, histVars, inflight>>
     ELSE /\ users' = UserUpdatePassword(users, userId, BcryptHash(newPassword))
          /\ sessions' = SessionDeleteByUserId(sessions, userId)
          /\ pwRevoked' = pwRevoked \cup {t \in issued : t.userId = userId}
          /\ last' = [req EXCEPT !.events = {"PASSWORD_CHANGED"}]
          /\ UNCHANGED <<now, nextId, emailVerifications, passwordResets, oauthAccounts,
                         cacheVars, issued, consumed, streak, burned, spent, revocation, loggedOut, inflight>>

\* ---------------------------------------------------------------- OAuthService

\* what the provider answers to the code exchange: a rejection, or the account
OAuthAnswers ==
  {[accepted |-> FALSE, email |-> "none", providerId |-> "none"]}
    \cup {[accepted |-> TRUE, email |-> e, providerId |-> e] : e \in Emails}

\* provider.toUpperCase()
ToUpperCase(provider) ==
  CASE provider = "google" -> "GOOGLE"
    [] provider = "github" -> "GITHUB"

\* OAuthService.generateTokens: the payload is { userId, email, role }
OAuthGenerateTokens(userId, t) ==
  LET payload == [userId |-> userId, familyId |-> NoId, sessionId |-> NoId]
  IN [accessToken |-> GenerateAccessToken(payload, t),
      refreshToken |-> GenerateRefreshToken(payload, t),
      familyId |-> NoId]

GetAuthorizationUrl(provider) ==
  LET state == nextId
  IN /\ oauthStates' = CacheSet(oauthStates, state,
                                JSONstringify([provider |-> provider, timestamp |-> now]),
                                OAUTH_STATE_TTL)
     /\ nextId' = nextId + 1
     /\ last' = [NoResp EXCEPT !.op = "oauthUrl", !.provider = provider, !.nonce = state]
     /\ UNCHANGED <<now, dbVars, lockouts, userCache, csrfTokens, families, sessionMeta, histVars, inflight>>

\* a callback that links whatever the user's emailVerified says
LinkRefused_Never(user, isLinked) == FALSE

\* handleCallback's rule for an existing user: no link yet and the email unverified
LinkRefused(user, isLinked) == ~isLinked /\ ~user.emailVerified

\* the commented-out hint: OAuth emails taken as pre-verified
NewOAuthUser_PreVerified(id, email) ==
  [id |-> id, email |-> email, password |-> Null, emailVerified |-> TRUE]

\* userRepository.create({ email, password: null, role: USER }): emailVerified
\* is left to the schema default
NewOAuthUser(id, email) ==
  [id |-> id, email |-> email, password |-> Null, emailVerified |-> FALSE]

\* a callback that accepts a state issued for any provider
ProviderMismatch_Never(stateData, provider) == FALSE

\* stateData.provider !== provider
ProviderMismatch(stateData, provider) == stateData.provider # provider

\* handleCallback after the state has been validated and deleted: the code
\* exchange, the user and the link, the tokens and the session
CallbackAfterState(req, provider, ou) ==
  LET found == FindUserByEmail(ou.email)
      isNewUser == found = Null
      user == IF isNewUser THEN NewOAuthUser(nextId, ou.email) ELSE found
      isLinked == /\ ~isNewUser
                  /\ \E a \in oauthAccounts :
                       a.userId = user.id /\ a.provider = ToUpperCase(provider)
      linkId == nextId + (IF isNewUser THEN 1 ELSE 0)
      link == [id |-> linkId, userId |-> user.id, provider |-> ToUpperCase(provider),
               providerId |-> ou.providerId]
      sessionId == linkId + (IF isLinked THEN 0 ELSE 1)
      tokens == OAuthGenerateTokens(user.id, now)
      session == [id |-> sessionId, userId |-> user.id, token |-> tokens.refreshToken,
                  expiresAt |-> now + OAUTH_SESSION_LIFETIME]
  IN IF ~ou.accepted
        THEN /\ last' = [req EXCEPT !.kind = "InternalError",
                                    !.msg = "Failed to exchange code for token"]
             /\ UNCHANGED <<nextId, users, oauthAccounts, sessions, issued>>
        ELSE IF ~isNewUser /\ LinkRefused(user, isLinked)
        THEN /\ last' = [req EXCEPT !.kind = "BadRequest", !.readUsers = TRUE,
                                    !.msg = "Please verify your email address before linking OAuth accounts"]
             /\ UNCHANGED <<nextId, users, oauthAccounts, sessions, issued>>
        ELSE /\ users' = IF isNewUser THEN users \cup {user} ELSE users
             /\ oauthAccounts' = IF isLinked THEN oauthAccounts
                                 ELSE oauthAccounts \cup {link}
             /\ IF \E s \in sessions : s.token = tokens.refreshToken
                THEN \* Session.token is unique: sessionRepository.create throws
                     /\ nextId' = sessionId
                     /\ last' = [req EXCEPT !.kind = "DatabaseError", !.readUsers = TRUE,
                                            !.userId = user.id,
                                            !.msg = "Database operation failed"]
                     /\ UNCHANGED <<sessions, issued>>
                ELSE /\ sessions' = sessions \cup {session}
                     /\ nextId' = sessionId + 1
                     /\ issued' = issued \cup {tokens.refreshToken}
                     /\ last' = [req EXCEPT !.tokens = tokens, !.readUsers = TRUE,
                                            !.userId = user.id,
                                            !.events = {"OAUTH_LOGIN_SUCCESS"}]

\* the two tests on the stored state; "none" lets the callback go on
StateRejection(storedState, provider) ==
  IF storedState = Null THEN "Invalid or expired OAuth state parameter"
  ELSE IF ProviderMismatch(JSONparse(storedState), provider)
  THEN "OAuth state provider mismatch"
  ELSE "none"

\* the body of handleCallback(provider, code, state); req is the request served,
\* ou the provider's answer to the code
HandleCallbackAs(req, provider, ou, state) ==
  LET storedState == CacheGet(oauthStates, state)
      rejection == StateRejection(storedState, provider)
  IN IF rejection # "none"
     THEN /\ last' = [req EXCEPT !.kind = "Unauthorized", !.msg = rejection,
                                 !.events = {"OAUTH_LOGIN_FAILED"}]
          /\ UNCHANGED <<now, nextId, dbVars, cacheVars, histVars, inflight>>
     ELSE /\ oauthStates' = CacheDel(oauthStates, state)
          /\ spent' = spent \cup {state}
          /\ UNCHANGED <<now, emailVerifications, passwordResets, lockouts, userCache, csrfTokens, families,
                         sessionMeta, consumed, streak, pwRevoked, burned,
                         revocation, loggedOut, inflight>>
          /\ CallbackAfterState(req, provider, ou)

\* OAuthService.handleCallback(provider, code, state)
HandleCallback(provider, ou, state) ==
  HandleCallbackAs([NoResp EXCEPT !.op = "oauthCallback", !.provider = provider,
                                  !.nonce = state, !.email = ou.email],
                   provider, ou, state)

\* OAuthService.unlinkProvider(userId, provider)
UnlinkProvider(userId, provider) ==
  LET accounts == {a \in oauthAccounts : a.userId = userId}
      found == {a \in accounts : a.provider = ToUpperCase(provider)}
      user == FindUserById(userId)
      req == [NoResp EXCEPT !.op = "unlinkProvider", !.userId = userId,
                            !.provider = provider,
                            !.pre = (/\ user # Null
                                     /\ user.password = Null
                                     /\ Cardinality(accounts) = 1)]
  IN IF found = {}
     THEN /\ last' = [req EXCEPT !.kind = "InternalError", !.msg = "OAuth account not found"]
          /\ UNCHANGED <<now, nextId, dbVars, cacheVars, histVars, inflight>>
     ELSE /\ oauthAccounts' = oauthAccounts \ found
          /\ last' = req
          /\ UNCHANGED <<now, nextId, users, sessions, emailVerifications, passwordResets,
                         cacheVars, histVars, inflight>>

\* ---------------------------------------------------------------- OAuthController

\* the nonce names a stored state written for this provider
StateValidFor(provider, state) ==
  /\ state \in DOMAIN oauthStates
  /\ JSONparse(CacheGet(oauthStates, state)).provider = provider

\* GET /auth/oauth/{provider}/callback?code=..&state=queryState: the handler reads
\* code only and calls handleCallback(provider, code), so state is undefined there
HandleProviderCallback(provider, ou, queryState) ==
  HandleCallbackAs([NoResp EXCEPT !.op = "oauthCallbackRoute", !.provider = provider,
                                  !.nonce = queryState, !.email = ou.email,
                                  !.kind = "redirect",
                                  !.pre = (StateValidFor(provider, queryState) /\ ou.accepted)],
                   provider, ou, NoId)

\* ---------------------------------------------------------------- UserService

\* cache.get<User>(`user:${userId}`), then the User table, then cache.set with TTL 3600 s
GetUserById(userId) ==
  LET cachedUser == CacheGet(userCache, userId)
      user == FindUserById(userId)
      req == [NoResp EXCEPT !.op = "getUserById", !.userId = userId]
  IN IF cachedUser # Null
     THEN /\ last' = [req EXCEPT !.user = cachedUser]
          /\ UNCHANGED <<now, nextId, dbVars, cacheVars, histVars, inflight>>
     ELSE IF user = Null
     THEN /\ last' = [req EXCEPT !.kind = "NotFound", !.msg = "User not found",
                                 !.readUsers = TRUE]
          /\ UNCHANGED <<now, nextId, dbVars, cacheVars, histVars, inflight>>
     ELSE /\ userCache' = CacheSet(userCache, userId, user, USER_CACHE_TTL)
          /\ last' = [req EXCEPT !.user = user, !.readUsers = TRUE]
          /\ UNCHANGED <<now, nextId, dbVars, lockouts, families, sessionMeta, oauthStates,
                         csrfTokens, histVars, inflight>>

\* userRepository.delete; the rows that reference the user go with it (onDelete: Cascade)
DeleteAccount(userId) ==
  LET user == FindUserById(userId)
      req == [NoResp EXCEPT !.op = "deleteAccount", !.userId = userId, !.readUsers = TRUE]
  IN IF user = Null
     THEN /\ last' = [req EXCEPT !.kind = "NotFound", !.msg = "User not found"]
          /\ UNCHANGED <<now, nextId, dbVars, cacheVars, histVars, inflight>>
     ELSE /\ users' = {u \in users : u.id # userId}
          /\ sessions' = {x \in sessions : x.userId # userId}
          /\ emailVerifications' = {x \in emailVerifications : x.userId # userId}
          /\ passwordResets' = {x \in passwordResets : x.userId # userId}
          /\ oauthAccounts' = {x \in oauthAccounts : x.userId # userId}
          /\ last' = req
          /\ UNCHANGED <<now, nextId, cacheVars, histVars, inflight>>

\* ---------------------------------------------------------------- CsrfService, csrfMiddleware, app

\* GET /auth/csrf-token: CsrfService.generateToken
GetCsrfToken ==
  LET token == nextId
  IN /\ csrfTokens' = CacheSet(csrfTokens, token, JSONstringify([createdAt |-> now]), CSRF_TTL)
     /\ nextId' = nextId + 1
     /\ last' = [NoResp EXCEPT !.op = "csrfToken", !.method = "GET", !.nonce = token]
     /\ UNCHANGED <<now, dbVars, lockouts, families, sessionMeta, oauthStates, userCache,
                    histVars, inflight>>

\* CsrfService.validateToken; NoId is a request without the header
ValidateToken(token) == token # NoId /\ CacheGet(csrfTokens, token) # Null

\* csrfMiddleware: "next" or the error it passes on
CsrfMiddleware(method, token) ==
  IF method \in {"GET", "HEAD", "OPTIONS"} THEN "next"
  ELSE IF token = NoId THEN "Forbidden"
  ELSE IF ~ValidateToken(token) THEN "Forbidden"
  ELSE "next"

\* the middleware app.ts mounts in front of the routes
AppMiddleware ==
  <<"helmet", "cors", "apiLimiter", "express.json", "express.urlencoded",
    "mongoSanitize", "httpLogger">>

\* router.post('/logout', validate(refreshTokenSchema), authController.logout)
LogoutRoute == <<"validate">>

\* what the chain in front of a handler answers to the CSRF header
CsrfVerdict(chain, method, token) ==
  IF \E i \in DOMAIN chain : chain[i] = "csrfMiddleware"
  THEN CsrfMiddleware(method, token) ELSE "next"

\* POST /auth/logout with X-CSRF-Token: token (NoId: no header)
PostLogout(token, refreshToken) ==
  LET req == [NoResp EXCEPT !.op = "logout", !.method = "POST", !.csrf = token,
                            !.token = refreshToken, !.pre = ValidateToken(token)]
  IN IF CsrfVerdict(AppMiddleware \o LogoutRoute, "POST", token) = "Forbidden"
     THEN /\ last' = [req EXCEPT !.kind = "Forbidden"]
          /\ UNCHANGED <<now, nextId, dbVars, cacheVars, histVars, inflight>>
     ELSE LogoutAs(req, refreshToken)

\* ---------------------------------------------------------------- SessionController

\* an authenticate that also wants the token's Session row to be there
Authenticate_SessionBound(accessToken) ==
  VerifyAccessToken(accessToken, now) /\ \E s \in sessions : s.id = accessToken.sessionId

\* authenticate: the bearer access token is verified, its payload becomes req.user
Authenticate(accessToken) == VerifyAccessToken(accessToken, now)

\* DELETE /sessions/:id
RevokeSession(accessToken, sessionId) ==
  LET userId == accessToken.userId
      own == SessionFindByUserId(sessions, userId)
      req == [NoResp EXCEPT !.op = "revokeSession", !.token = accessToken,
                            !.sessionId = sessionId]
  IN IF ~Authenticate(accessToken)
     THEN /\ last' = [req EXCEPT !.kind = "Unauthorized", !.msg = "Invalid or expired token"]
          /\ UNCHANGED <<now, nextId, dbVars, cacheVars, histVars, inflight>>
     ELSE IF ~\E s \in own : s.id = sessionId
     THEN /\ last' = [req EXCEPT !.userId = userId, !.kind = "NotFound",
                                 !.msg = "Session not found"]
          /\ UNCHANGED <<now, nextId, dbVars, cacheVars, histVars, inflight>>
     ELSE /\ sessions' = SessionDelete(sessions, sessionId)
          /\ sessionMeta' = CacheDel(sessionMeta, sessionId)
          /\ last' = [req EXCEPT !.userId = userId]
          /\ UNCHANGED <<now, nextId, users, emailVerifications, passwordResets,
                         oauthAccounts, lockouts, families, oauthStates, userCache,
                         csrfTokens, histVars, inflight>>

\* a filter that lets the current session through as well
NotCurrent_Always(s, currentSessionId) == TRUE

\* sessions.filter((s) => s.id !== currentSessionId)
NotCurrent(s, currentSessionId) == s.id # currentSessionId

RECURSIVE DeleteEach(_, _)
\* every row of the set deleted from the table ss, one delete per row
DeleteEach(ss, rows) ==
  IF rows = {} THEN ss
  ELSE LET s == CHOOSE x \in rows : TRUE
       IN DeleteEach(SessionDelete(ss, s.id), rows \ {s})

RECURSIVE DelEach(_, _)
\* the session_meta key of every row of the set deleted from the cache c
DelEach(c, rows) ==
  IF rows = {} THEN c
  ELSE LET s == CHOOSE x \in rows : TRUE
       IN DelEach(CacheDel(c, s.id), rows \ {s})

\* DELETE /sessions/other
RevokeOtherSessions(accessToken) ==
  LET userId == accessToken.userId
      currentSessionId == accessToken.sessionId
      own == SessionFindByUserId(sessions, userId)
      others == {s \in own : NotCurrent(s, currentSessionId)}
      req == [NoResp EXCEPT !.op = "revokeOtherSessions", !.token = accessToken,
                            !.sessionId = currentSessionId]
  IN IF ~Authenticate(accessToken)
     THEN /\ last' = [req EXCEPT !.kind = "Unauthorized", !.msg = "Invalid or expired token"]
          /\ UNCHANGED <<now, nextId, dbVars, cacheVars, histVars, inflight>>
     ELSE IF currentSessionId = NoId
     THEN /\ last' = [req EXCEPT !.userId = userId, !.kind = "NotFound",
                                 !.msg = "Current session ID not found"]
          /\ UNCHANGED <<now, nextId, dbVars, cacheVars, histVars, inflight>>
     ELSE /\ sessions' = DeleteEach(sessions, others)
          /\ sessionMeta' = DelEach(sessionMeta, others)
          /\ last' = [req EXCEPT !.userId = userId]
          /\ revocation' =
               [dropped |-> revocation.dropped \cup {s.token : s \in others},
                kept |-> (revocation.kept \ {s.token : s \in others})
                           \cup {s.token : s \in own \ others}]
          /\ UNCHANGED <<now, nextId, users, emailVerifications, passwordResets,
                         oauthAccounts, lockouts, families, oauthStates, userCache,
                         csrfTokens, issued, consumed, streak, pwRevoked, burned, spent,
                         loggedOut, inflight>>

\* ---------------------------------------------------------------- TokenUtil

\* claim sets handed to TokenUtil
ClaimSets ==
  [userId : 1..MaxClaim, familyId : 0..MaxClaim, sessionId : 0..MaxClaim]

\* generateAccessToken(c) and generateRefreshToken(c) for one claim set
TokenIssue(c) ==
  /\ last' = [NoResp EXCEPT !.op = "issue", !.claims = c,
                            !.tokens = [accessToken |-> GenerateAccessToken(c, now),
                                        refreshToken |-> GenerateRefreshToken(c, now),
                                        familyId |-> c.familyId]]
  /\ UNCHANGED <<now, nextId, dbVars, cacheVars, histVars, inflight>>

\* verifyAccessToken(tok) / verifyRefreshToken(tok) on a token of the last pair
TokenVerify(tok, key) ==
  LET payload == IF key = "access" THEN VerifyAccessTokenPayload(tok, now)
                 ELSE VerifyRefreshTokenPayload(tok, now)
  IN /\ last' = [NoResp EXCEPT !.op = "verify", !.claims = last.claims,
                               !.tokens = last.tokens, !.token = tok, !.method = key,
                               !.user = payload,
                               !.kind = IF payload = Null THEN "JsonWebTokenError" ELSE "ok"]
     /\ UNCHANGED <<now, nextId, dbVars, cacheVars, histVars, inflight>>

\* ---------------------------------------------------------------- AuthService.refreshToken, await by await

\* the call of caller c ends: its answer is kept with the caller
Finished(c, kind) == [inflight EXCEPT ![c] = [@ EXCEPT !.pc = "done", !.result = kind]]

RefreshAnswer(tok, kind, msg) ==
  [NoResp EXCEPT !.op = "refresh", !.token = tok, !.kind = kind, !.msg = msg]

\* refreshToken is entered: verifyRefreshToken runs before the first await
RefreshCall(c, refreshToken) ==
  /\ inflight[c].pc = "idle"
  /\ IF ~VerifyRefreshToken(refreshToken, now)
     THEN /\ inflight' = Finished(c, "Unauthorized")
          /\ last' = RefreshAnswer(refreshToken, "Unauthorized", "Invalid refresh token")
     ELSE /\ inflight' = [inflight EXCEPT ![c] =
                            [Idle EXCEPT !.pc = "head", !.token = refreshToken,
                                         !.pre = (RefreshOutcome(refreshToken, now) = "rotate")]]
          /\ UNCHANGED last
  /\ UNCHANGED <<now, nextId, dbVars, cacheVars, histVars>>

\* await cache.get(familyKey) and the comparison with currentToken
RefreshReadHead(c) ==
  LET refreshToken == inflight[c].token
      familyState == CacheGetRecord(families, refreshToken.familyId)
  IN /\ inflight[c].pc = "head"
     /\ inflight' = [inflight EXCEPT ![c].pc =
                       IF refreshToken.familyId # NoId /\ IsReuse(familyState, refreshToken)
                       THEN "burn" ELSE "find"]
     /\ UNCHANGED <<now, nextId, dbVars, cacheVars, histVars, last>>

\* await cache.del(familyKey); throw Unauthorized (reuse detected)
RefreshBurn(c) ==
  LET refreshToken == inflight[c].token
  IN /\ inflight[c].pc = "burn"
     /\ families' = CacheDel(families, refreshToken.familyId)
     /\ burned' = burned \cup {refreshToken.familyId}
     /\ inflight' = Finished(c, "Unauthorized")
     /\ last' = [RefreshAnswer(refreshToken, "Unauthorized",
                               "Invalid refresh token (reuse detected)")
                   EXCEPT !.events = {"TOKEN_REUSE_DETECTED"}]
     /\ UNCHANGED <<now, nextId, dbVars, lockouts, sessionMeta, oauthStates, userCache,
                    csrfTokens, issued, consumed, streak, pwRevoked, spent, revocation,
                    loggedOut>>

\* await sessionRepository.findByToken(refreshToken) and the expiry test; an
\* expired row is deleted in the same step
RefreshFindSession(c) ==
  LET refreshToken == inflight[c].token
      session == FindSessionByToken(refreshToken)
  IN /\ inflight[c].pc = "find"
     /\ IF session = Null
        THEN /\ inflight' = Finished(c, "Unauthorized")
             /\ last' = RefreshAnswer(refreshToken, "Unauthorized", "Invalid refresh token")
             /\ UNCHANGED sessions
        ELSE IF session.expiresAt < now
        THEN /\ sessions' = SessionDelete(sessions, session.id)
             /\ inflight' = Finished(c, "Unauthorized")
             /\ last' = RefreshAnswer(refreshToken, "Unauthorized", "Refresh token expired")
        ELSE /\ inflight' = [inflight EXCEPT ![c] = [@ EXCEPT !.pc = "user",
                                                              !.session = session]]
             /\ UNCHANGED <<sessions, last>>
     /\ UNCHANGED <<now, nextId, users, emailVerifications, passwordResets, oauthAccounts,
                    cacheVars, histVars>>

\* await userRepository.findById(payload.userId); uuidv4() and generateTokens
\* run before the next await
RefreshFindUser(c) ==
  LET refreshToken == inflight[c].token
      sessionId == nextId
      tokens == GenerateTokens(refreshToken.userId, sessionId, refreshToken.familyId,
                               nextId + 1, now)
  IN /\ inflight[c].pc = "user"
     /\ IF FindUserById(refreshToken.userId) = Null
        THEN /\ inflight' = Finished(c, "Unauthorized")
             /\ last' = RefreshAnswer(refreshToken, "Unauthorized", "User not found")
             /\ UNCHANGED nextId
        ELSE /\ inflight' = [inflight EXCEPT ![c] = [@ EXCEPT !.pc = "sethead",
                                                              !.tokens = tokens]]
             /\ nextId' = nextId + (IF refreshToken.familyId # NoId THEN 1 ELSE 2)
             /\ UNCHANGED last
     /\ UNCHANGED <<now, dbVars, cacheVars, histVars>>

\* await cache.set(token_family:{familyId}, { currentToken, userId })
RefreshSetHead(c) ==
  LET refreshToken == inflight[c].token
      tokens == inflight[c].tokens
  IN /\ inflight[c].pc = "sethead"
     /\ families' = IF refreshToken.familyId # NoId
                    THEN CacheSet(families, refreshToken.familyId,
                                  FamilyHead(tokens, refreshToken.userId), FAMILY_TTL)
                    ELSE families
     /\ inflight' = [inflight EXCEPT ![c].pc = "delete"]
     /\ UNCHANGED <<now, nextId, dbVars, lockouts, sessionMeta, oauthStates, userCache,
                    csrfTokens, histVars, last>>

\* await sessionRepository.delete(session.id): prisma's delete throws when the
\* row is not there any more
RefreshDeleteSession(c) ==
  LET refreshToken == inflight[c].token
      session == inflight[c].session
  IN /\ inflight[c].pc = "delete"
     /\ IF \E s \in sessions : s.id = session.id
        THEN /\ sessions' = SessionDelete(sessions, session.id)
             /\ inflight' = [inflight EXCEPT ![c].pc = "create"]
             /\ UNCHANGED last
        ELSE /\ inflight' = Finished(c, "DatabaseError")
             /\ last' = RefreshAnswer(refreshToken, "DatabaseError",
                                      "Database operation failed")
             /\ UNCHANGED sessions
     /\ UNCHANGED <<now, nextId, users, emailVerifications, passwordResets, oauthAccounts,
                    cacheVars, histVars>>

\* await createSession(...): the row, then its session_meta entry; the tokens
\* are returned
RefreshCreateSession(c) ==
  LET refreshToken == inflight[c].token
      tokens == inflight[c].tokens
      sessionId == tokens.refreshToken.sessionId
  IN /\ inflight[c].pc = "create"
     /\ sessions' = sessions \cup {NewSession(refreshToken.userId, tokens.refreshToken,
                                              sessionId)}
     /\ sessionMeta' = NewSessionMeta(sessionMeta, sessionId, "password")
     /\ issued' = issued \cup {tokens.refreshToken}
     /\ consumed' = consumed \cup {refreshToken}
     /\ inflight' = Finished(c, "ok")
     /\ last' = [RefreshAnswer(refreshToken, "ok", "none")
                   EXCEPT !.tokens = tokens, !.events = {"TOKEN_REFRESH_SUCCESS"},
                          !.readUsers = TRUE]
     /\ UNCHANGED <<now, nextId, users, emailVerifications, passwordResets, oauthAccounts,
                    lockouts, families, oauthStates, userCache, csrfTokens, streak,
                    pwRevoked, burned, spent, revocation, loggedOut>>

\* ---------------------------------------------------------------- AuthService.login, await by await

\* login is entered: await cache.get(lockoutKey) and the lockout test
LoginReadLockout(c, e, p) ==
  LET lockoutState == CacheGetRecord(lockouts, e)
      req == [NoResp EXCEPT !.op = "login", !.email = e, !.password = p]
  IN /\ inflight[c].pc = "idle"
     /\ IF IsLocked(lockoutState, now)
        THEN /\ inflight' = Finished(c, "Unauthorized")
             /\ last' = [req EXCEPT !.kind = "Unauthorized", !.msg = "Account is locked",
                                    !.minutes = lockoutState.lockedUntil - now,
                                    !.pre = TRUE]
        ELSE /\ inflight' = [inflight EXCEPT ![c] =
                               [Idle EXCEPT !.pc = "finduser", !.email = e,
                                            !.lockoutState = lockoutState,
                                            !.pre = (p = "pw1")]]
             /\ UNCHANGED last
     /\ UNCHANGED <<now, nextId, dbVars, cacheVars, histVars>>

\* await userRepository.findByEmail, getPasswordHash, await bcrypt.compare
LoginFindUser(c) ==
  LET e == inflight[c].email
      p == IF inflight[c].pre THEN "pw1" ELSE "pw2"
      user == FindUserByEmail(e)
      passes == /\ user # Null
                /\ user.password # Null
                /\ BcryptCompare(p, user.password)
  IN /\ inflight[c].pc = "finduser"
     /\ inflight' = [inflight EXCEPT ![c].pc = IF passes THEN "passed" ELSE "failed"]
     /\ UNCHANGED <<now, nextId, dbVars, cacheVars, histVars, last>>

\* handleFailedLogin(email, lockoutState) with the record read on entry:
\* await cache.set(lockoutKey, ...), then the error is thrown
LoginHandleFailed(c) ==
  LET e == inflight[c].email
      out == FailedLogin(inflight[c].lockoutState, now)
  IN /\ inflight[c].pc = "failed"
     /\ lockouts' = CacheSet(lockouts, e, JSONstringify(out.write), out.ttl)
     /\ streak' = [streak EXCEPT ![e] = IF @ <= MAX_ATTEMPTS THEN @ + 1 ELSE @]
     /\ inflight' = Finished(c, out.kind)
     /\ last' = [NoResp EXCEPT !.op = "login", !.email = e, !.kind = out.kind,
                               !.msg = out.msg, !.minutes = out.minutes,
                               !.events = out.events, !.readUsers = TRUE]
     /\ UNCHANGED <<now, nextId, dbVars, families, sessionMeta, oauthStates, userCache,
                    csrfTokens, issued, consumed, pwRevoked, burned, spent, revocation,
                    loggedOut>>

\* the password matched: cache.del(lockoutKey), the tokens, the family head and
\* the session, taken as one step
LoginPassed(c) ==
  LET e == inflight[c].email
      user == FindUserByEmail(e)
      sessionId == nextId
      tokens == GenerateTokens(user.id, sessionId, NoId, nextId + 1, now)
  IN /\ inflight[c].pc = "passed"
     /\ user # Null
     /\ lockouts' = IF inflight[c].lockoutState # Null THEN CacheDel(lockouts, e) ELSE lockouts
     /\ streak' = [streak EXCEPT ![e] = 0]
     /\ families' = CacheSet(families, tokens.familyId, FamilyHead(tokens, user.id), FAMILY_TTL)
     /\ sessions' = sessions \cup {NewSession(user.id, tokens.refreshToken, sessionId)}
     /\ sessionMeta' = NewSessionMeta(sessionMeta, sessionId, "password")
     /\ nextId' = nextId + 2
     /\ issued' = issued \cup {tokens.refreshToken}
     /\ inflight' = Finished(c, "ok")
     /\ last' = [NoResp EXCEPT !.op = "login", !.email = e, !.tokens = tokens,
                               !.events = {"LOGIN_SUCCESS"}, !.readUsers = TRUE]
     /\ UNCHANGED <<now, users, emailVerifications, passwordResets, oauthAccounts,
                    oauthStates, userCache, csrfTokens, consumed, pwRevoked, burned, spent,
                    revocation, loggedOut>>

\* ---------------------------------------------------------------- SessionCleanupJob

\* one firing of the hourly cron callback: sessionRepository.deleteExpired()
SessionCleanup ==
  /\ sessions' = SessionDeleteExpired(sessions, now)
  /\ last' = [NoResp EXCEPT !.op = "sessionCleanup"]
  /\ UNCHANGED <<now, nextId, users, emailVerifications, passwordResets, oauthAccounts,
                 cacheVars, histVars, inflight>>

\* ---------------------------------------------------------------- time

\* d minutes pass; cache keys whose TTL ran out disappear
Tick(d) ==
  /\ now' = now + d
  /\ lockouts' = CacheExpire(lockouts, now + d)
  /\ families' = CacheExpire(families, now + d)
  /\ sessionMeta' = CacheExpire(sessionMeta, now + d)
  /\ oauthStates' = CacheExpire(oauthStates, now + d)
  /\ userCache' = CacheExpire(userCache, now + d)
  /\ csrfTokens' = CacheExpire(csrfTokens, now + d)
  /\ streak' = [e \in Emails |-> IF e \in DOMAIN CacheExpire(lockouts, now + d)
                                 THEN streak[e] ELSE 0]
  /\ last' = [NoResp EXCEPT !.op = "tick",
                            !.pre = \E e \in DOMAIN lockouts :
                                      /\ IsLocked(CacheGetRecord(lockouts, e), now)
                                      /\ ~IsLocked(CacheGetRecord(lockouts, e), now + d)]
  /\ UNCHANGED <<nextId, dbVars, issued, consumed, pwRevoked, burned, spent, revocation, loggedOut, inflight>>

\* ---------------------------------------------------------------- OAuthService.handleCallback, await by await

CallbackRequest(provider, state) ==
  [NoResp EXCEPT !.op = "oauthCallback", !.provider = provider, !.nonce = state]

\* handleCallback is entered: await cache.get(`oauth:state:${state}`) and the
\* two tests on what it returned
CallbackReadState(c, provider, state) ==
  LET storedState == CacheGet(oauthStates, state)
      rejection == StateRejection(storedState, provider)
  IN /\ inflight[c].pc = "idle"
     /\ IF rejection # "none"
        THEN /\ inflight' = [inflight EXCEPT ![c] =
                               [Idle EXCEPT !.pc = "done", !.result = "Unauthorized",
                                            !.provider = provider, !.nonce = state]]
             /\ last' = [CallbackRequest(provider, state)
                           EXCEPT !.kind = "Unauthorized", !.msg = rejection,
                                  !.events = {"OAUTH_LOGIN_FAILED"}]
        ELSE /\ inflight' = [inflight EXCEPT ![c] =
                               [Idle EXCEPT !.pc = "delstate", !.provider = provider,
                                            !.nonce = state]]
             /\ UNCHANGED last
     /\ UNCHANGED <<now, nextId, dbVars, cacheVars, histVars>>

\* await cache.del(`oauth:state:${state}`); state validation is behind the call
CallbackDeleteState(c) ==
  /\ inflight[c].pc = "delstate"
  /\ oauthStates' = CacheDel(oauthStates, inflight[c].nonce)
  /\ spent' = spent \cup {inflight[c].nonce}
  /\ inflight' = [inflight EXCEPT ![c] = [@ EXCEPT !.pc = "exchange", !.pre = TRUE]]
  /\ UNCHANGED <<now, nextId, dbVars, lockouts, families, sessionMeta, userCache,
                 csrfTokens, issued, consumed, streak, pwRevoked, burned, revocation,
                 loggedOut, last>>

\* await strategy.authenticate(code) and the rest of handleCallback
CallbackExchange(c, ou) ==
  LET provider == inflight[c].provider
      req == [CallbackRequest(provider, inflight[c].nonce) EXCEPT !.email = ou.email]
  IN /\ inflight[c].pc = "exchange"
     /\ CallbackAfterState(req, provider, ou)
     /\ inflight' = Finished(c, last'.kind)
     /\ UNCHANGED <<now, emailVerifications, passwordResets, cacheVars, consumed, streak,
                    pwRevoked, burned, spent, revocation, loggedOut>>

\* ---------------------------------------------------------------- AuthService.register, await by await

RegisterAnswer(e, kind, msg) ==
  [NoResp EXCEPT !.op = "register", !.email = e, !.kind = kind, !.msg = msg,
                 !.readUsers = TRUE]

\* register is entered: await userRepository.findByEmail(data.email), then
\* await bcrypt.hash
RegisterFindUser(c, e, p) ==
  /\ inflight[c].pc = "idle"
  /\ IF FindUserByEmail(e) # Null
     THEN /\ inflight' = [inflight EXCEPT ![c] =
                            [Idle EXCEPT !.pc = "done", !.result = "Conflict",
                                         !.email = e, !.password = p]]
          /\ last' = RegisterAnswer(e, "Conflict", "Email already registered")
     ELSE /\ inflight' = [inflight EXCEPT ![c] =
                            [Idle EXCEPT !.pc = "createuser", !.email = e,
                                         !.password = p, !.pre = TRUE]]
          /\ UNCHANGED last
  /\ UNCHANGED <<now, nextId, dbVars, cacheVars, histVars>>

\* await userRepository.create(...): User.email is unique, so prisma throws
\* when a row with the email has appeared since the lookup
RegisterCreateUser(c) ==
  LET e == inflight[c].email
      user == [id |-> nextId, email |-> e, password |-> BcryptHash(inflight[c].password),
               emailVerified |-> FALSE]
  IN /\ inflight[c].pc = "createuser"
     /\ IF FindUserByEmail(e) # Null
        THEN /\ inflight' = Finished(c, "DatabaseError")
             /\ last' = RegisterAnswer(e, "DatabaseError", "Database operation failed")
             /\ UNCHANGED <<users, nextId>>
        ELSE /\ users' = users \cup {user}
             /\ nextId' = nextId + 1
             /\ inflight' = [inflight EXCEPT ![c] = [@ EXCEPT !.pc = "finish",
                                                              !.user = user]]
             /\ UNCHANGED last
     /\ UNCHANGED <<now, sessions, emailVerifications, passwordResets, oauthAccounts,
                    cacheVars, histVars>>

\* the rest of register: the verification row and its mail, the tokens, the
\* family head and the session
RegisterFinish(c) ==
  LET user == inflight[c].user
      verification == [id |-> nextId, userId |-> user.id, token |-> nextId,
                       verifiedAt |-> NoTime, createdAt |-> now]
      sessionId == nextId + 1
      tokens == GenerateTokens(user.id, sessionId, NoId, nextId + 2, now)
  IN /\ inflight[c].pc = "finish"
     /\ emailVerifications' = emailVerifications \cup {verification}
     /\ families' = CacheSet(families, tokens.familyId, FamilyHead(tokens, user.id), FAMILY_TTL)
     /\ sessions' = sessions \cup {NewSession(user.id, tokens.refreshToken, sessionId)}
     /\ sessionMeta' = NewSessionMeta(sessionMeta, sessionId, "password")
     /\ nextId' = nextId + 3
     /\ issued' = issued \cup {tokens.refreshToken}
     /\ inflight' = Finished(c, "ok")
     /\ last' = [RegisterAnswer(user.email, "ok", "none")
                   EXCEPT !.tokens = tokens, !.events = {"REGISTER_SUCCESS"}]
     /\ UNCHANGED <<now, users, passwordResets, oauthAccounts, lockouts, oauthStates,
                    userCache, csrfTokens, consumed, streak, pwRevoked, burned, spent,
                    revocation, loggedOut>>

\* ---------------------------------------------------------------- AuthService.resetPassword, await by await

ResetAnswer(token, newPassword, kind, msg) ==
  [NoResp EXCEPT !.op = "resetPassword", !.nonce = token, !.password = newPassword,
                 !.kind = kind, !.msg = msg]

\* resetPassword is entered: await passwordResetRepository.findByToken and the
\* three tests on the row
ResetFind(c, token, newPassword) ==
  LET reset == FindResetByToken(token)
      msg == IF reset = Null THEN "Invalid reset token"
             ELSE IF reset.usedAt # NoTime THEN "Reset token already used"
             ELSE IF ResetExpired(reset, now) THEN "Reset token expired"
             ELSE "none"
  IN /\ inflight[c].pc = "idle"
     /\ IF msg # "none"
        THEN /\ inflight' = [inflight EXCEPT ![c] =
                               [Idle EXCEPT !.pc = "done", !.result = "BadRequest",
                                            !.nonce = token, !.password = newPassword]]
             /\ last' = ResetAnswer(token, newPassword, "BadRequest", msg)
        ELSE /\ inflight' = [inflight EXCEPT ![c] =
                               [Idle EXCEPT !.pc = "update", !.nonce = token,
                                            !.password = newPassword, !.reset = reset,
                                            !.pre = TRUE]]
             /\ UNCHANGED last
     /\ UNCHANGED <<now, nextId, dbVars, cacheVars, histVars>>

\* await bcrypt.hash; await userRepository.update(reset.userId, { password })
ResetUpdateUser(c) ==
  /\ inflight[c].pc = "update"
  /\ users' = UserUpdatePassword(users, inflight[c].reset.userId,
                                 BcryptHash(inflight[c].password))
  /\ inflight' = [inflight EXCEPT ![c].pc = "markused"]
  /\ UNCHANGED <<now, nextId, sessions, emailVerifications, passwordResets, oauthAccounts,
                 cacheVars, histVars, last>>

\* await passwordResetRepository.markAsUsed(reset.id)
ResetMarkUsed(c) ==
  /\ inflight[c].pc = "markused"
  /\ passwordResets' = ResetMarkAsUsed(passwordResets, inflight[c].reset.id)
  /\ inflight' = [inflight EXCEPT ![c].pc = "revoke"]
  /\ UNCHANGED <<now, nextId, users, sessions, emailVerifications, oauthAccounts,
                 cacheVars, histVars, last>>

\* await sessionRepository.deleteByUserId(reset.userId); the call returns
ResetDeleteSessions(c) ==
  LET reset == inflight[c].reset
  IN /\ inflight[c].pc = "revoke"
     /\ sessions' = SessionDeleteByUserId(sessions, reset.userId)
     /\ pwRevoked' = pwRevoked \cup {t \in issued : t.userId = reset.userId}
     /\ inflight' = Finished(c, "ok")
     /\ last' = [ResetAnswer(inflight[c].nonce, inflight[c].password, "ok", "none")
                   EXCEPT !.userId = reset.userId, !.events = {"PASSWORD_RESET_SUCCESS"}]
     /\ UNCHANGED <<now, nextId, users, emailVerifications, passwordResets, oauthAccounts,
                    cacheVars, issued, consumed, streak, burned, spent, revocation,
                    loggedOut>>

\* the bounds on fresh ids hold back only the requests that would draw one
RegisterWithin(maxIds, e, p) ==
  (FindUserByEmail(e) = Null => nextId + 3 <= maxIds) /\ Register(e, p)

LoginWithin(maxIds, e, p) ==
  (LoginOutcome(CacheGetRecord(lockouts, e), FindUserByEmail(e), p, now).success
     => nextId + 1 <= maxIds) /\ Login(e, p)

RefreshWithin(maxIds, tok) ==
  (RefreshOutcome(tok, now) = "rotate" => nextId + 1 <= maxIds) /\ Refresh(tok)

TickWithin(maxNow, d) == now + d <= maxNow /\ Tick(d)

\* the rotation machine: registered users log in, refresh and log out
Next ==
  \/ \E e \in Emails : RegisterWithin(MaxIds, e, "pw1")
  \/ \E u \in users : LoginWithin(MaxIds, u.email, "pw1")
  \/ \E tok \in issued : RefreshWithin(MaxIds, tok)
  \/ \E tok \in issued : Logout(tok)
  \/ \E d \in {5040} : TickWithin(MaxNow, d)

Spec == Init /\ [][Next]_vars

\* the login / lockout machine: any email, any password, half-hour steps of the clock
NextLockout ==
  \/ \E e \in Emails, p \in Passwords : RegisterWithin(MaxIdsLockout, e, p)
  \/ \E e \in Emails, p \in Passwords : LoginWithin(MaxIdsLockout, e, p)
  \/ \E d \in {LOCKOUT_DURATION} : TickWithin(MaxNowLockout, d)

SpecLockout == Init /\ [][NextLockout]_vars

RequestPasswordResetWithin(maxIds, e, mailOk) ==
  (FindUserByEmail(e) # Null => nextId <= maxIds) /\ RequestPasswordReset(e, mailOk)

\* the password machine: users log in and refresh, change and reset their passwords
NextPassword ==
  \/ \E e \in Emails : RegisterWithin(MaxIdsPassword, e, "pw1")
  \/ \E u \in users, p \in Passwords :
       u.password = BcryptHash(p) /\ LoginWithin(MaxIdsPassword, u.email, p)
  \/ \E tok \in issued : RefreshWithin(MaxIdsPassword, tok)
  \/ \E e \in Emails, mailOk \in BOOLEAN :
       RequestPasswordResetWithin(MaxIdsPassword, e, mailOk)
  \/ \E r \in passwordResets, p \in Passwords : ResetPassword(r.token, p)
  \/ \E u \in users, cur \in Passwords, p \in Passwords : ChangePassword(u.id, cur, p)
  \/ \E d \in {RESET_LIFETIME} : TickWithin(MaxNowPassword, d)

SpecPassword == Init /\ [][NextPassword]_vars

HandleCallbackWithin(maxIds, provider, ou, state) ==
  LET found == FindUserByEmail(ou.email)
      isLinked == /\ found # Null
                  /\ \E a \in oauthAccounts :
                       a.userId = found.id /\ a.provider = ToUpperCase(provider)
      draws == IF ~(StateValidFor(provider, state) /\ ou.accepted) THEN 0
               ELSE IF found = Null THEN 3
               ELSE IF isLinked THEN 1
               ELSE IF found.emailVerified THEN 2 ELSE 0
  IN nextId + draws - 1 <= maxIds /\ HandleCallback(provider, ou, state)

\* the OAuth machine: local users register and verify, browsers fetch
\* authorization URLs and come back with a code and a state
NextOAuth ==
  \/ \E e \in {"a@x"} : RegisterWithin(MaxIdsOAuth, e, "pw1")
  \/ \E v \in emailVerifications : VerifyEmail(v.token)
  \/ \E provider \in Providers :
       /\ nextId <= MaxIdsOAuth
       /\ Cardinality(DOMAIN oauthStates \cup spent) < MaxStates
       /\ GetAuthorizationUrl(provider)
  \/ \E provider \in Providers, ou \in OAuthAnswers, state \in DOMAIN oauthStates \cup spent :
       HandleCallbackWithin(MaxIdsOAuth, provider, ou, state)
  \/ \E provider \in Providers, ou \in OAuthAnswers, state \in DOMAIN oauthStates :
       HandleProviderCallback(provider, ou, state)
  \/ \E d \in {OAUTH_STATE_TTL} : TickWithin(MaxNowOAuth, d)

SpecOAuth == Init /\ [][NextOAuth]_vars

\* the reset-token machine: tokens are requested, presented, presented again
\* and left to expire, in half-hour steps of the clock
NextReset ==
  \/ \E e \in {"a@x"} : RegisterWithin(MaxIdsReset, e, "pw1")
  \/ \E e \in Emails : RequestPasswordResetWithin(MaxIdsReset, e, TRUE)
  \/ \E token \in {r.token : r \in passwordResets} \cup {NoId}, p \in Passwords :
       ResetPassword(token, p)
  \/ \E d \in {30} : TickWithin(MaxNowReset, d)

SpecReset == Init /\ [][NextReset]_vars

\* the user read-cache machine: users are read through the cache while their
\* rows are verified, re-passworded and deleted
NextUser ==
  \/ \E e \in Emails : RegisterWithin(MaxIdsUser, e, "pw1")
  \/ \E v \in emailVerifications : VerifyEmail(v.token)
  \/ \E u \in users, p \in Passwords : ChangePassword(u.id, "pw1", p)
  \/ \E id \in 1..MaxIdsUser : GetUserById(id)
  \/ \E u \in users : DeleteAccount(u.id)
  \/ \E d \in {USER_CACHE_TTL} : TickWithin(MaxNowUser, d)

SpecUser == Init /\ [][NextUser]_vars

\* the CSRF machine: tokens are fetched and expire, and logout requests arrive
\* with a fetched token, a made-up one, or none
NextCsrf ==
  \/ \E e \in {"a@x"} : RegisterWithin(MaxIdsCsrf, e, "pw1")
  \/ \E u \in users : LoginWithin(MaxIdsCsrf, u.email, "pw1")
  \/ nextId <= MaxIdsCsrf /\ GetCsrfToken
  \/ \E token \in 0..MaxIdsCsrf, tok \in issued : PostLogout(token, tok)
  \/ \E d \in {CSRF_TTL} : TickWithin(MaxNowCsrf, d)

SpecCsrf == Init /\ [][NextCsrf]_vars

\* the sweeper machine: sessions and reset tokens are created, weeks pass, the
\* cleanup job fires
NextSweep ==
  \/ \E e \in Emails : RegisterWithin(MaxIdsSweep, e, "pw1")
  \/ \E u \in users : LoginWithin(MaxIdsSweep, u.email, "pw1")
  \/ \E e \in Emails : RequestPasswordResetWithin(MaxIdsSweep, e, TRUE)
  \/ SessionCleanup
  \/ \E d \in {SESSION_LIFETIME} : TickWithin(MaxNowSweep, d)

SpecSweep == Init /\ [][NextSweep]_vars

\* the linking machine: users sign in through providers and unlink them
NextUnlink ==
  \/ \E provider \in Providers :
       /\ nextId <= MaxIdsUnlink
       /\ Cardinality(DOMAIN oauthStates \cup spent) < MaxStates
       /\ GetAuthorizationUrl(provider)
  \/ \E provider \in Providers, ou \in OAuthAnswers, state \in DOMAIN oauthStates :
       HandleCallbackWithin(MaxIdsUnlink, provider, ou, state)
  \/ \E u \in users, provider \in Providers : UnlinkProvider(u.id, provider)

SpecUnlink == Init /\ [][NextUnlink]_vars

\* the bearer access token that was returned together with a refresh token
AccessTokenOf(refreshToken) ==
  GenerateAccessToken([userId |-> refreshToken.userId, familyId |-> refreshToken.familyId,
                       sessionId |-> refreshToken.sessionId], refreshToken.iat)

\* the device machine: users log in on several devices and revoke single sessions
NextRevoke ==
  \/ \E e \in Emails : RegisterWithin(MaxIdsRevoke, e, "pw1")
  \/ \E u \in users : LoginWithin(MaxIdsRevoke, u.email, "pw1")
  \/ \E tok \in issued, sessionId \in {s.id : s \in sessions} \cup {NoId} :
       RevokeSession(AccessTokenOf(tok), sessionId)
  \/ \E d \in {ACCESS_EXPIRES_IN} : TickWithin(MaxNowRevoke, d)

SpecRevoke == Init /\ [][NextRevoke]_vars

\* the session machine: users log in on several devices, refresh, and sign the
\* other devices out
NextSessions ==
  \/ \E e \in Emails : RegisterWithin(MaxIdsSessions, e, "pw1")
  \/ \E u \in users : u.email = "a@x" /\ LoginWithin(MaxIdsSessions, u.email, "pw1")
  \/ \E tok \in issued \ consumed : RefreshWithin(MaxIdsSessions, tok)
  \/ \E tok \in issued : RevokeOtherSessions(AccessTokenOf(tok))
  \/ \E d \in {ACCESS_EXPIRES_IN} : TickWithin(MaxNowSessions, d)

SpecSessions == Init /\ [][NextSessions]_vars

\* the token machine: claim sets are signed, the tokens verified with either
\* key, minutes and days pass
NextToken ==
  \/ \E c \in ClaimSets : TokenIssue(c)
  \/ \E key \in {"access", "refresh"} :
       /\ last.tokens # Null
       /\ last.op \in {"issue", "verify"}
       /\ \/ TokenVerify(last.tokens.accessToken, key)
          \/ TokenVerify(last.tokens.refreshToken, key)
  \/ \E d \in {ACCESS_EXPIRES_IN, REFRESH_EXPIRES_IN} : TickWithin(MaxNowToken, d)

SpecToken == Init /\ [][NextToken]_vars

\* the bearer machine: access tokens outlive the sessions and passwords they
\* were issued under
NextAuthn ==
  \/ \E e \in Emails : RegisterWithin(MaxIdsAuthn, e, "pw1")
  \/ \E u \in users, p \in Passwords :
       u.password = BcryptHash(p) /\ LoginWithin(MaxIdsAuthn, u.email, p)
  \/ \E u \in users, p \in Passwords : ChangePassword(u.id, "pw1", p)
  \/ \E tok \in issued, sessionId \in {s.id : s \in sessions} \cup {NoId} :
       RevokeSession(AccessTokenOf(tok), sessionId)
  \/ \E d \in {5, ACCESS_EXPIRES_IN} : TickWithin(MaxNowAuthn, d)

SpecAuthn == Init /\ [][NextAuthn]_vars

\* the racing machine: one user, logins and logouts, and two callers whose
\* refresh calls run await by await
NextRace ==
  \/ RegisterWithin(MaxIdsRace, "a@x", "pw1")
  \/ \E u \in users : LoginWithin(MaxIdsRace, u.email, "pw1")
  \/ \E tok \in issued : Logout(tok)
  \/ \E c \in Callers, tok \in issued : RefreshCall(c, tok)
  \/ \E c \in Callers : RefreshReadHead(c)
  \/ \E c \in Callers : RefreshBurn(c)
  \/ \E c \in Callers : RefreshFindSession(c)
  \/ \E c \in Callers : nextId <= MaxIdsRace /\ RefreshFindUser(c)
  \/ \E c \in Callers : RefreshSetHead(c)
  \/ \E c \in Callers : RefreshDeleteSession(c)
  \/ \E c \in Callers : RefreshCreateSession(c)

SpecRace == Init /\ [][NextRace]_vars

\* the racing login machine: one user, failed logins one after another, and
\* two callers whose logins run await by await
NextRaceLogin ==
  \/ RegisterWithin(MaxIdsRaceLogin, "a@x", "pw1")
  \/ LoginWithin(MaxIdsRaceLogin, "a@x", "pw2")
  \/ \E c \in Callers, p \in Passwords : LoginReadLockout(c, "a@x", p)
  \/ \E c \in Callers : LoginFindUser(c)
  \/ \E c \in Callers : LoginHandleFailed(c)
  \/ \E c \in Callers : nextId + 1 <= MaxIdsRaceLogin /\ LoginPassed(c)

SpecRaceLogin == Init /\ [][NextRaceLogin]_vars

\* the racing callback machine: browsers fetch authorization URLs, and two
\* callers whose callbacks run await by await
NextRaceOAuth ==
  \/ \E provider \in Providers :
       /\ nextId <= MaxIdsRaceOAuth
       /\ Cardinality(DOMAIN oauthStates \cup spent) < MaxStates
       /\ GetAuthorizationUrl(provider)
  \/ \E c \in Callers, provider \in Providers, state \in DOMAIN oauthStates \cup spent :
       CallbackReadState(c, provider, state)
  \/ \E c \in Callers : CallbackDeleteState(c)
  \/ \E c \in Callers, ou \in OAuthAnswers :
       nextId + 2 <= MaxIdsRaceOAuth /\ CallbackExchange(c, ou)

SpecRaceOAuth == Init /\ [][NextRaceOAuth]_vars

\* the racing registration machine: two callers whose register calls run await
\* by await, and logins of the users they leave behind with the first password
NextRaceRegister ==
  \/ \E c \in Callers, e \in Emails, p \in Passwords : RegisterFindUser(c, e, p)
  \/ \E c \in Callers : nextId <= MaxIdsRaceRegister /\ RegisterCreateUser(c)
  \/ \E c \in Callers : nextId + 2 <= MaxIdsRaceRegister /\ RegisterFinish(c)
  \/ \E u \in users :
       u.password = BcryptHash("pw1") /\ LoginWithin(MaxIdsRaceRegister, u.email, "pw1")

SpecRaceRegister == Init /\ [][NextRaceRegister]_vars

\* the racing reset machine: one user, reset tokens, and two callers whose
\* resetPassword calls run await by await
NextRaceReset ==
  \/ RegisterWithin(MaxIdsRaceReset, "a@x", "pw1")
  \/ RequestPasswordResetWithin(MaxIdsRaceReset, "a@x", TRUE)
  \/ \E u \in users, p \in Passwords :
       u.password = BcryptHash(p) /\ LoginWithin(MaxIdsRaceReset, u.email, p)
  \/ \E c \in Callers, token \in {r.token : r \in passwordResets}, p \in Passwords :
       ResetFind(c, token, p)
  \/ \E c \in Callers : ResetUpdateUser(c)
  \/ \E c \in Callers : ResetMarkUsed(c)
  \/ \E c \in Callers : ResetDeleteSessions(c)

SpecRaceReset == Init /\ [][NextRaceReset]_vars

\* the racing password machine: one user whose password is changed while two
\* callers log in or refresh await by await
NextRacePassword ==
  \/ RegisterWithin(MaxIdsRacePassword, "a@x", "pw1")
  \/ \E u \in users, cur \in Passwords, new \in Passwords : ChangePassword(u.id, cur, new)
  \/ \E c \in Callers, p \in Passwords : LoginReadLockout(c, "a@x", p)
  \/ \E c \in Callers : LoginFindUser(c)
  \/ \E c \in Callers : LoginHandleFailed(c)
  \/ \E c \in Callers : nextId + 1 <= MaxIdsRacePassword /\ LoginPassed(c)
  \/ \E c \in Callers, tok \in issued : RefreshCall(c, tok)
  \/ \E c \in Callers : RefreshReadHead(c)
  \/ \E c \in Callers : RefreshBurn(c)
  \/ \E c \in Callers : RefreshFindSession(c)
  \/ \E c \in Callers : nextId <= MaxIdsRacePassword /\ RefreshFindUser(c)
  \/ \E c \in Callers : RefreshSetHead(c)
  \/ \E c \in Callers : RefreshDeleteSession(c)
  \/ \E c \in Callers : RefreshCreateSession(c)

SpecRacePassword == Init /\ [][NextRacePassword]_vars

\* ================================================================ claims

\* C1: a refresh with a validly signed token whose family head is in the cache
\* and names another token fails Unauthorized, deletes the head, emits
\* TOKEN_REUSE_DETECTED, returns no tokens and leaves the Session table as it was.
C1_ReuseRejected ==
  [][(/\ last'.op = "refresh"
      /\ VerifyRefreshToken(last'.token, now)
      /\ last'.token.familyId # NoId
      /\ CacheGetRecord(families, last'.token.familyId) # Null
      /\ CacheGetRecord(families, last'.token.familyId).currentToken # last'.token)
     => (/\ last'.kind = "Unauthorized"
         /\ last'.token.familyId \notin DOMAIN families'
         /\ last'.events = {"TOKEN_REUSE_DETECTED"}
         /\ last'.tokens = Null
         /\ issued' = issued
         /\ sessions' = sessions)]_vars

C1_Witness ==
  /\ last.op = "refresh"
  /\ "TOKEN_REUSE_DETECTED" \in last.events
  /\ last.token.familyId \notin DOMAIN families
  /\ sessions # {}

\* C2: once reuse has been detected for a family, no refresh with a token of
\* that family succeeds (login R0, refresh R0 -> R1, refresh R0 rejected as
\* reuse, then refresh R1 is Unauthorized).
C2_FamilyDeadAfterReuse ==
  (last.op = "refresh" /\ last.token.familyId \in burned) => last.kind = "Unauthorized"

\* C3: a refresh token is single-use: a refresh with a token whose refresh has
\* succeeded before fails Unauthorized and returns no tokens.
C3_SingleUse ==
  [][(last'.op = "refresh" /\ last'.token \in consumed)
     => (last'.kind = "Unauthorized" /\ last'.tokens = Null /\ sessions' = sessions)]_vars

C3_Witness ==
  /\ last.op = "refresh"
  /\ last.token \in consumed
  /\ last.kind = "Unauthorized"
  /\ last.token.familyId \notin DOMAIN families
  /\ last.events = {}

\* C4: while login_attempts:{e} holds lockedUntil > now, a login for e, also
\* with the right password, fails Unauthorized with the locked message, does
\* not read the User table, creates no session and leaves the record as it was.
C4_LockedLoginRejected ==
  [][(/\ last'.op = "login"
      /\ last'.email \in DOMAIN lockouts
      /\ CacheGetRecord(lockouts, last'.email).lockedUntil > now)
     => (/\ last'.kind = "Unauthorized"
         /\ last'.msg = "Account is locked"
         /\ last'.minutes = CacheGetRecord(lockouts, last'.email).lockedUntil - now
         /\ ~last'.readUsers
         /\ last'.tokens = Null
         /\ sessions' = sessions
         /\ lockouts' = lockouts)]_vars

C4_Witness ==
  /\ last.op = "login"
  /\ last.pre
  /\ last.kind = "Unauthorized"
  /\ \E u \in users : u.email = last.email /\ BcryptCompare(last.password, u.password)

\* C5: after k <= 5 failed logins in a row for e, counted from a state with no
\* record, the record holds attempts = k; for k < 5 it has no lockedUntil, and
\* the failure wrote it with TTL 1h and emitted LOGIN_FAILED; the failure that
\* makes k = 5 wrote lockedUntil = now + 30 min with TTL 30 min, emitted
\* ACCOUNT_LOCKED and was itself answered Unauthorized with the locked message.
C5_FailedLoginCounter ==
  \A e \in Emails :
    (streak[e] >= 1 /\ streak[e] <= MAX_ATTEMPTS) =>
      /\ e \in DOMAIN lockouts
      /\ CacheGetRecord(lockouts, e).attempts = streak[e]
      /\ (streak[e] < MAX_ATTEMPTS) = (CacheGetRecord(lockouts, e).lockedUntil = NoTime)
      /\ (last.op = "login" /\ last.email = e) =>
            /\ last.kind = "Unauthorized"
            /\ IF streak[e] < 5
               THEN /\ lockouts[e].exp = now + 60
                    /\ last.events = {"LOGIN_FAILED"}
                    /\ last.msg = "Invalid email or password"
               ELSE /\ lockouts[e].exp = now + 30
                    /\ CacheGetRecord(lockouts, e).lockedUntil = now + 30
                    /\ last.events = {"ACCOUNT_LOCKED"}
                    /\ last.msg = "Account is locked"
                    /\ last.minutes = 30

C5_Witness ==
  /\ last.op = "login"
  /\ streak[last.email] = 5
  /\ last.events = {"ACCOUNT_LOCKED"}
  /\ \E e \in Emails : streak[e] \in 1..4

\* C10: for the lockout record login finds for e, a failing login(e, p) has the
\* same error kind, message and write to login_attempts:{e} whether no user
\* has the email, the user has no password hash, or the password is wrong.
C10_UniformLoginFailure ==
  \A e \in Emails, p \in Passwords :
    LET lockoutState == CacheGetRecord(lockouts, e)
        row(h) == [id |-> 1, email |-> e, password |-> h, emailVerified |-> FALSE]
        cases == {Null, row(Null)} \cup {row(BcryptHash(q)) : q \in Passwords \ {p}}
    IN \A u1 \in cases, u2 \in cases :
         LET o1 == LoginOutcome(lockoutState, u1, p, now)
             o2 == LoginOutcome(lockoutState, u2, p, now)
         IN /\ ~o1.success
            /\ o1.kind = o2.kind
            /\ o1.msg = o2.msg
            /\ o1.minutes = o2.minutes
            /\ o1.write = o2.write
            /\ o1.ttl = o2.ttl

C10_Witness ==
  /\ last.op = "login"
  /\ last.msg = "Invalid email or password"
  /\ FindUserByEmail(last.email) = Null
  /\ \E u \in users :
       /\ u.email \in DOMAIN lockouts
       /\ lockouts[u.email] = lockouts[last.email]
       /\ CacheGetRecord(lockouts, u.email).attempts = 4

\* C6: when resetPassword or changePassword returns success for user u, no
\* Session row of u is left, and afterwards a refresh with a refresh token that
\* was issued to u before that call fails Unauthorized and returns no tokens.
C6_PasswordChangeRevokesSessions ==
  [][/\ (last'.op \in {"resetPassword", "changePassword"} /\ last'.kind = "ok")
          => (\A s \in sessions' : s.userId # last'.userId)
     /\ (last'.op = "refresh" /\ last'.token \in pwRevoked)
          => (last'.kind = "Unauthorized" /\ last'.tokens = Null)]_vars

C6_Witness ==
  /\ last.op = "refresh"
  /\ last.token \in pwRevoked
  /\ last.kind = "Unauthorized"
  /\ \E r \in passwordResets : r.usedAt # NoTime /\ r.userId = last.token.userId
  /\ \E s \in sessions : s.userId = last.token.userId

\* C7: an OAuth state nonce is single-use: once a callback has passed state
\* validation with nonce n, every later callback presenting n fails
\* Unauthorized and creates no user, no link, no session and no tokens.
C7_StateSingleUse ==
  [][(last'.op = "oauthCallback" /\ last'.nonce \in spent)
     => (/\ last'.kind = "Unauthorized"
         /\ last'.tokens = Null
         /\ users' = users
         /\ oauthAccounts' = oauthAccounts
         /\ sessions' = sessions)]_vars

C7_Witness ==
  /\ last.op = "oauthCallback"
  /\ last.nonce \in spent
  /\ last.kind = "Unauthorized"
  /\ \E s \in sessions : s.token.familyId = NoId

\* C8: a callback request for provider P carrying the state nonce that the
\* authorization-URL request for P stored, within the nonce's TTL and with a
\* code the provider accepts, ends in a redirect carrying the tokens.
C8_CallbackRedirects ==
  (last.op = "oauthCallbackRoute" /\ last.pre)
    => (last.kind = "redirect" /\ last.tokens # Null)

\* C9: the callback never links a provider to an existing user whose
\* emailVerified is false: when state validation passes, the provider accepts
\* the code and its email is that of such a user with no link for the provider,
\* the callback fails BadRequest and creates no OAuthAccount, Session or tokens.
C9_NoLinkToUnverifiedUser ==
  [][/\ \A a \in oauthAccounts' \ oauthAccounts :
          \A u \in users : u.id = a.userId => u.emailVerified
     /\ (/\ last'.op = "oauthCallback"
         /\ StateValidFor(last'.provider, last'.nonce)
         /\ \E u \in users :
              /\ u.email = last'.email
              /\ ~u.emailVerified
              /\ ~\E a \in oauthAccounts :
                    a.userId = u.id /\ a.provider = ToUpperCase(last'.provider))
        => (/\ last'.kind = "BadRequest"
            /\ last'.tokens = Null
            /\ oauthAccounts' = oauthAccounts
            /\ sessions' = sessions
            /\ issued' = issued)]_vars

C9_Witness ==
  /\ last.op = "oauthCallback"
  /\ last.kind = "BadRequest"
  /\ last.nonce \in spent
  /\ \E u \in users : u.email = last.email /\ ~u.emailVerified /\ u.password # Null

\* C11: requestPasswordReset(email) answers success for every email, whether
\* or not a user has it and whether or not the mailer delivers.
C11_ResetRequestAlwaysSucceeds ==
  last.op = "requestPasswordReset" => last.kind = "ok"

C13_VerifyEmailOnce ==
  [][/\ \A v \in emailVerifications' :
          v.verifiedAt # NoTime => \E u \in users' : u.id = v.userId /\ u.emailVerified
     /\ last'.op = "verifyEmail" =>
          /\ last'.kind = "ok" =>
               \E v \in emailVerifications' : v.token = last'.nonce /\ v.verifiedAt = now
          /\ (\E v \in emailVerifications : v.token = last'.nonce /\ v.verifiedAt # NoTime)
               => /\ last'.kind = "BadRequest"
                  /\ dbVars' = dbVars
                  /\ cacheVars' = cacheVars]_vars

C13_Witness ==
  /\ last.op = "verifyEmail"
  /\ last.kind = "BadRequest"
  /\ \E v \in emailVerifications : v.token = last.nonce /\ v.verifiedAt # NoTime
  /\ \E u \in users : u.emailVerified

\* C14: when changePassword, resetPassword, verifyEmail or deleteAccount has
\* returned success for a user, the cache key user:{id} is absent, and a
\* getUserById that succeeds returns the User row the durable store holds.
C14_UserCacheInvalidated ==
  /\ (last.op \in {"changePassword", "resetPassword", "verifyEmail", "deleteAccount"}
        /\ last.kind = "ok") => last.userId \notin DOMAIN userCache
  /\ (last.op = "getUserById" /\ last.kind = "ok") => last.user = FindUserById(last.userId)

\* C15: a POST, PUT, PATCH or DELETE request whose X-CSRF-Token header does
\* not name a csrf:{token} key in the cache is answered 403 Forbidden and
\* does not reach its handler.
C15_StateChangingNeedsCsrf ==
  (last.method \in {"POST", "PUT", "PATCH", "DELETE"} /\ ~last.pre) => last.kind = "Forbidden"

\* C16: after a run of the background sweeper no Session row and no
\* PasswordReset row with expiresAt earlier than the run is left.
C16_SweeperRemovesExpired ==
  last.op = "sessionCleanup" =>
    /\ \A s \in sessions : ~(s.expiresAt < now)
    /\ \A r \in passwordResets : ~(r.expiresAt < now)

\* C17: unlinkProvider(userId, provider) is refused with BadRequest and leaves
\* the OAuthAccount in place when the user has no password hash and exactly
\* one OAuthAccount.
C17_LastMethodNotUnlinked ==
  (last.op = "unlinkProvider" /\ last.pre)
    => (last.kind = "BadRequest" /\ \E a \in oauthAccounts : a.userId = last.userId)

\* C18: revokeSession(userId, sessionId) with a sessionId that is not among
\* userId's own sessions (unknown, or owned by another user) fails NotFound and
\* deletes no Session row and no session_meta key; with an owned sessionId it
\* deletes exactly that row and its session_meta key and nothing else.
C18_RevokeSessionOwnOnly ==
  [][(last'.op = "revokeSession" /\ last'.userId # NoId) =>
       IF \E s \in sessions : s.id = last'.sessionId /\ s.userId = last'.userId
       THEN /\ last'.kind = "ok"
            /\ sessions' = {s \in sessions : s.id # last'.sessionId}
            /\ DOMAIN sessionMeta' = DOMAIN sessionMeta \ {last'.sessionId}
            /\ \A k \in DOMAIN sessionMeta' : sessionMeta'[k] = sessionMeta[k]
            /\ UNCHANGED <<users, emailVerifications, passwordResets, oauthAccounts,
                           lockouts, families, oauthStates, userCache, csrfTokens>>
       ELSE /\ last'.kind = "NotFound"
            /\ UNCHANGED <<dbVars, cacheVars>>]_vars

\* a user asked for another user's session, which is still there
C18_Witness ==
  /\ last.op = "revokeSession"
  /\ last.kind = "NotFound"
  /\ \E s \in sessions : s.id = last.sessionId /\ s.userId # last.userId

\* C19: after revokeOtherSessions(userId, currentSessionId) succeeds, the
\* Session rows of userId are exactly the rows that had id = currentSessionId
\* before the call, the session_meta keys of the deleted rows are gone, and the
\* Session rows of every other user are unchanged.
C19_RevokeOthersFrame ==
  [][(last'.op = "revokeOtherSessions" /\ last'.kind = "ok") =>
       /\ {s \in sessions' : s.userId = last'.userId}
            = {s \in sessions : s.userId = last'.userId /\ s.id = last'.sessionId}
       /\ \A s \in sessions \ sessions' : s.id \notin DOMAIN sessionMeta'
       /\ {s \in sessions' : s.userId # last'.userId}
            = {s \in sessions : s.userId # last'.userId}]_vars

\* the call dropped a session and kept the current one, next to another user's
C19_Witness ==
  /\ last.op = "revokeOtherSessions"
  /\ last.kind = "ok"
  /\ revocation.dropped # {}
  /\ \E s \in sessions : s.userId = last.userId /\ s.id = last.sessionId
  /\ \E s \in sessions : s.userId # last.userId

\* C20: with two sessions A and B of one user, after revokeOtherSessions called
\* with A's access token, refresh with B's refresh token fails Unauthorized and
\* refresh with A's refresh token (its session still in place) succeeds.
C20_OthersCannotRefresh ==
  [][last'.op = "refresh" =>
       /\ last'.token \in revocation.dropped
            => (last'.kind = "Unauthorized" /\ last'.tokens = Null)
       /\ (/\ last'.token \in revocation.kept
           /\ \E s \in sessions : s.token = last'.token /\ ~(s.expiresAt < now))
            => (last'.kind = "ok" /\ last'.tokens # Null)]_vars

\* the kept session refreshed after another one of the same user was dropped
C20_Witness ==
  /\ last.op = "refresh"
  /\ last.kind = "ok"
  /\ last.token \in revocation.kept
  /\ \E t \in revocation.dropped : t.userId = last.token.userId

\* C21: logout(t) succeeds for every t, including a token that has no Session
\* row; it deletes at most the one Session row whose token is t, and calling it
\* twice leaves the same state as calling it once; after it, refresh(t) fails
\* Unauthorized.
C21_LogoutIdempotent ==
  [][/\ last'.op = "logout" =>
          /\ last'.kind = "ok"
          /\ sessions' = {s \in sessions : s.token # last'.token}
          /\ Cardinality(sessions \ sessions') <= 1
          /\ UNCHANGED <<users, emailVerifications, passwordResets, oauthAccounts,
                         cacheVars>>
     /\ (last.op = "logout" /\ last'.op = "logout" /\ last'.token = last.token) =>
          UNCHANGED <<dbVars, cacheVars, histVars, inflight>>
     /\ (last'.op = "refresh" /\ last'.token \in loggedOut) =>
          (last'.kind = "Unauthorized" /\ last'.tokens = Null)]_vars

\* a token that was logged out and never rotated has just been refused by refresh
C21_Witness ==
  /\ last.op = "refresh"
  /\ last.token \in loggedOut
  /\ last.token \notin consumed
  /\ last.kind = "Unauthorized"

\* C22: register with an email that already belongs to a user fails Conflict and
\* creates no User row, no EmailVerification row, no Session row and no
\* token_family entry.
C22_DuplicateEmailConflict ==
  [][(last'.op = "register" /\ \E u \in users : u.email = last'.email) =>
       /\ last'.kind = "Conflict"
       /\ last'.tokens = Null
       /\ UNCHANGED <<users, emailVerifications, sessions, families>>]_vars

\* a registration was refused for an address that a user holds
C22_Witness ==
  /\ last.op = "register"
  /\ last.kind = "Conflict"
  /\ \E u \in users : u.email = last.email

C24_GetUserByIdCacheAside ==
  [][last'.op = "getUserById" =>
       IF last'.userId \in DOMAIN userCache
       THEN /\ last'.kind = "ok"
            /\ last'.user = userCache[last'.userId].value
            /\ ~last'.readUsers
            /\ userCache' = userCache
       ELSE IF \E u \in users : u.id = last'.userId
       THEN /\ last'.kind = "ok"
            /\ last'.user \in users
            /\ last'.user.id = last'.userId
            /\ DOMAIN userCache' = DOMAIN userCache \cup {last'.userId}
            /\ userCache'[last'.userId] = [value |-> last'.user, exp |-> now + USER_CACHE_TTL]
            /\ \A k \in DOMAIN userCache : userCache'[k] = userCache[k]
       ELSE /\ last'.kind = "NotFound"
            /\ last'.user = Null
            /\ userCache' = userCache]_vars

\* a hit answered from the cache while the stored row has moved on
C24_Witness ==
  /\ last.op = "getUserById"
  /\ last.kind = "ok"
  /\ ~last.readUsers
  /\ last.user \notin users

\* C25: every refresh token issued by register, login, refresh and the OAuth
\* callback carries a familyId and a sessionId claim, and the sessionId claim
\* equals the id of the Session row created for that refresh token.
C25_TokensCarryFamilyAndSession ==
  /\ \A t \in issued : t.familyId # NoId /\ t.sessionId # NoId
  /\ \A s \in sessions : s.token.sessionId = s.id

\* C26: refresh(t) for a validly signed t whose family has no head entry in the
\* cache is accepted if and only if a Session row with token t exists; absence
\* of the head alone never causes rejection and is never treated as reuse.
C26_HeadlessRefreshBySession ==
  [][(/\ last'.op = "refresh"
      /\ VerifyRefreshToken(last'.token, now)
      /\ last'.token.familyId \notin DOMAIN families) =>
       /\ (last'.kind = "ok" /\ last'.tokens # Null)
            <=> (\E s \in sessions : s.token = last'.token)
       /\ "TOKEN_REUSE_DETECTED" \notin last'.events
       /\ burned' = burned]_vars

\* a token whose family head is gone was rotated on the strength of its Session row
C26_Witness ==
  /\ last.op = "refresh"
  /\ ~last.pre
  /\ last.token.familyId # NoId
  /\ last.kind = "ok"
  /\ last.tokens # Null

\* C27: the authenticate step accepts or rejects a bearer access token from the
\* token and the clock alone: its outcome is identical in any two states of the
\* durable and ephemeral stores, so an unexpired access token is still accepted
\* after its session was revoked or the user's password changed.
C27_AuthenticateStoreFree ==
  [][last'.op = "revokeSession" =>
       (last'.kind # "Unauthorized"
          <=> (last'.token.typ = "access"
               /\ now < last'.token.iat + ACCESS_EXPIRES_IN))]_vars

\* a request passed authenticate with a token whose session is gone and whose
\* user has changed the password since
C27_Witness ==
  /\ last.op = "revokeSession"
  /\ last.kind # "Unauthorized"
  /\ ~\E s \in sessions : s.id = last.token.sessionId
  /\ \E u \in users : u.id = last.token.userId /\ u.password # BcryptHash("pw1")

\* C28: for every family f, in every state where no refresh of f is in
\* progress, token_family:{f} is either absent or its currentToken is the most
\* recently issued refresh token of f, and every Session row whose token
\* belongs to f holds exactly that token; this holds after any sequence and
\* interleaving of register, login, refresh and logout.
C28_HeadIsLatest ==
  (\A c \in Callers : inflight[c].pc \in {"idle", "done"}) =>
    \A f \in {t.familyId : t \in issued} :
      LET latest == CHOOSE t \in issued :
                      /\ t.familyId = f
                      /\ \A u \in issued : u.familyId = f => u.sessionId <= t.sessionId
      IN /\ f \in DOMAIN families => CacheGetRecord(families, f).currentToken = latest
         /\ \A s \in sessions : s.token.familyId = f => s.token = latest

\* C29: when two refresh calls presenting the same valid refresh token
\* interleave in any way, exactly one commits a rotation and returns new
\* tokens; the other fails with Unauthorized.
C29_OneRotationOtherUnauthorized ==
  (/\ \A c \in Callers : inflight[c].pc = "done" /\ inflight[c].pre
   /\ inflight["c1"].token = inflight["c2"].token
   /\ inflight["c1"].token \notin loggedOut) =>
     \E c \in Callers :
       /\ inflight[c].result = "ok"
       /\ \A d \in Callers \ {c} : inflight[d].result = "Unauthorized"

\* C30: the failed-login counter is incremented atomically: if n failed logins
\* for the same email interleave starting from a record with attempts = a, the
\* stored attempts afterwards is a + n (no lost update), so any 5 failed
\* attempts within the counter TTL lock the account regardless of interleaving.
C30_NoLostUpdate ==
  (\A c \in Callers : inflight[c].pc \in {"idle", "done"}) =>
    \A e \in Emails :
      /\ streak[e] \in 1..MAX_ATTEMPTS =>
           /\ e \in DOMAIN lockouts
           /\ CacheGetRecord(lockouts, e).attempts = streak[e]
      /\ streak[e] >= MAX_ATTEMPTS => IsLocked(CacheGetRecord(lockouts, e), now)

\* C31: the lockout state for email e returns to Clean in both ways: a
\* successful login for e removes login_attempts:{e}, and a Locked record
\* disappears 30 minutes after the lock without any request; after either, a
\* login with the correct password succeeds and the next failed login is counted
\* as attempt 1.
C31_LockoutReturnsToClean ==
  [][/\ (last'.op = "login" /\ last'.kind = "ok") => last'.email \notin DOMAIN lockouts'
     /\ \A e \in DOMAIN lockouts :
          (/\ CacheGetRecord(lockouts, e).lockedUntil # NoTime
           /\ lockouts' # lockouts) =>
             /\ CacheGetRecord(lockouts, e).lockedUntil = lockouts[e].exp
             /\ (now' >= CacheGetRecord(lockouts, e).lockedUntil) = (e \notin DOMAIN lockouts')
     /\ \A e \in DOMAIN lockouts' :
          (e \notin DOMAIN lockouts /\ CacheGetRecord(lockouts', e).lockedUntil # NoTime)
            => CacheGetRecord(lockouts', e).lockedUntil = now + LOCKOUT_DURATION
     /\ (last'.op = "login" /\ last'.email \notin DOMAIN lockouts) =>
          IF \E u \in users : /\ u.email = last'.email
                              /\ u.password # Null
                              /\ BcryptCompare(last'.password, u.password)
          THEN last'.kind = "ok" /\ last'.tokens # Null
          ELSE /\ last'.kind = "Unauthorized"
               /\ CacheGetRecord(lockouts', last'.email).attempts = 1]_vars

\* a lock has just run out with no request in between
C31_Witness ==
  /\ last.op = "tick"
  /\ last.pre
  /\ \E u \in users : u.email \notin DOMAIN lockouts

\* C32: rotation of the Session row in refresh is atomic: whenever a refresh
\* that had generated its new tokens has returned or failed, either the old row
\* is still present and no new row exists, or the old row is gone and the new
\* row with the new token exists; a refresh that fails part-way never leaves the
\* family without any Session row, nor the family head pointing at a token that
\* has no Session row.
C32_RotationAtomic ==
  [][\A c \in Callers :
       (/\ inflight[c].pc # "done"
        /\ inflight'[c].pc = "done"
        /\ inflight'[c].tokens # Null) =>
          LET old == inflight'[c].token
              new == inflight'[c].tokens.refreshToken
              f == old.familyId
              oldRow == \E s \in sessions' : s.token = old
              newRow == \E s \in sessions' : s.token = new
          IN /\ (oldRow /\ ~newRow) \/ (~oldRow /\ newRow)
             /\ (\A d \in Callers \ {c} : inflight'[d].pc \in {"idle", "done"}) =>
                  /\ \E s \in sessions' : s.token.familyId = f
                  /\ f \in DOMAIN families' =>
                       \E s \in sessions' :
                         s.token = CacheGetRecord(families', f).currentToken]_vars

\* C33: refresh(t) where the Session row for t has expiresAt <= now (including
\* expiresAt = now) deletes that row and fails Unauthorized, issuing no tokens;
\* an expired session is therefore never refreshed even if the sweeper has
\* never run.
C33_ExpiredRowDeletedOnRefresh ==
  [][(/\ last'.op = "refresh"
      /\ now' = now
      /\ \E s \in sessions : s.token = last'.token /\ s.expiresAt <= now) =>
        /\ last'.kind = "Unauthorized"
        /\ last'.tokens = Null
        /\ ~\E s \in sessions' : s.token = last'.token]_vars

\* C34: a callback for provider Q presenting a state nonce that was issued for
\* a different provider P fails Unauthorized before any code exchange, emits
\* OAUTH_LOGIN_FAILED, creates no user, link or session, and does not consume
\* the nonce: the entry stays usable by a callback for P until its TTL ends.
C34_WrongProviderKeepsNonce ==
  [][(/\ last'.op = "oauthCallback"
      /\ last'.nonce \in DOMAIN oauthStates) =>
        LET P == JSONparse(CacheGet(oauthStates, last'.nonce)).provider
        IN IF last'.provider # P
           THEN /\ last'.kind = "Unauthorized"
                /\ last'.msg = "OAuth state provider mismatch"
                /\ last'.events = {"OAUTH_LOGIN_FAILED"}
                /\ UNCHANGED <<users, oauthAccounts, sessions, oauthStates, spent, nextId>>
           ELSE /\ last'.kind # "Unauthorized"
                /\ last'.nonce \notin DOMAIN oauthStates'
                /\ last'.nonce \in spent']_vars

\* a nonce issued for one provider was presented to the other's callback and
\* is still stored
C34_Witness ==
  /\ last.op = "oauthCallback"
  /\ last.msg = "OAuth state provider mismatch"
  /\ last.nonce \in DOMAIN oauthStates
  /\ JSONparse(CacheGet(oauthStates, last.nonce)).provider # last.provider

C35_OneExchangePerNonce ==
  \A n \in DOMAIN oauthStates \cup spent :
    Cardinality({c \in Callers : inflight[c].nonce = n /\ inflight[c].pre}) <= 1

\* C36: when two register calls with the same email interleave, exactly one
\* User row with that email exists afterwards, exactly one call succeeds, and
\* the other is answered with Conflict (409).
C36_DuplicateRegisterConflict ==
  (/\ \A c \in Callers : inflight[c].pc = "done"
   /\ inflight["c1"].email = inflight["c2"].email) =>
     /\ Cardinality({u \in users : u.email = inflight["c1"].email}) = 1
     /\ \E c \in Callers :
          /\ inflight[c].result = "ok"
          /\ \A d \in Callers \ {c} : inflight[d].result = "Conflict"

\* C38: a password-reset token changes a password at most once: when two
\* resetPassword calls with the same valid token interleave, at most one
\* succeeds and the user's final password hash is the one set by that call.
C38_ResetTokenOnce ==
  (/\ \A c \in Callers : inflight[c].pc = "done"
   /\ inflight["c1"].nonce = inflight["c2"].nonce) =>
     /\ Cardinality({c \in Callers : inflight[c].result = "ok"}) <= 1
     /\ \A c \in Callers :
          inflight[c].result = "ok" =>
            \A u \in users :
              u.id = inflight[c].reset.userId => u.password = BcryptHash(inflight[c].password)

\* C39: revokeOtherSessions never deletes the Session row that holds the
\* caller's latest refresh token: after it succeeds for a caller holding any
\* unexpired access token (including one issued before the caller's most recent
\* refresh), the caller's latest refresh token can still be refreshed.
C39_RevokeOthersKeepsCallersRow ==
  [][(last'.op = "revokeOtherSessions" /\ last'.kind = "ok") =>
       \A s \in sessions :
         (s.userId = last'.userId /\ s.token.familyId = last'.token.familyId) =>
           /\ s \in sessions'
           /\ (RefreshOutcome(s.token, now) = "rotate")
                => (RefreshOutcome(s.token, now) = "rotate")']_vars

\* C40: a password change is not outrun by a concurrent authentication: once
\* changePassword or resetPassword for user u has returned success, no Session
\* row exists for u that was created by a login verified against the old
\* password or by a refresh of a token issued before the change, also when that
\* login or refresh interleaves with the password change.
C40_PasswordChangeNotOutrun ==
  [][\A c \in Callers :
       /\ (inflight[c].pc = "passed" /\ inflight'[c].result = "ok") =>
            \A u \in users :
              u.email = inflight[c].email =>
                BcryptCompare(IF inflight[c].pre THEN "pw1" ELSE "pw2", u.password)
       /\ (inflight[c].pc = "create" /\ inflight'[c].result = "ok") =>
            inflight[c].token \notin pwRevoked]_vars
====
